---- MODULE Spec2Model ----
(***************************************************************************)
(* Closure planning on a rail network: the integrated coordinator          *)
(* (src/src/execution/tcr_opt.py, TCROptimizer), the project scheduling    *)
(* model (src/src/optimization_models/proj_sched.py) and the traffic flow  *)
(* model (src/src/optimization_models/traffic_flow.py).                    *)
(*                                                                         *)
(* Times are whole hours counted from the midnight that opens the plan's   *)
(* first calendar day.  Continuous amounts are kept on fixed grids:        *)
(* blocking levels in halves (AmountScale = 1.0), utilization in tenths.   *)
(* The MIP engine is the external collaborator: a solve step returns a     *)
(* status and, on optimal/feasible, any assignment that satisfies the      *)
(* constraints the build step posted.                                      *)
(***************************************************************************)
EXTENDS Integers, Sequences, FiniteSets, TLC

VARIABLES
    problem,              \* input entities: network, demand, routes (read-only while solving)
    plan,                 \* Plan: start_time, end_time, period_length, num_periods, traffic window
    pc,                   \* position of the coordinator inside the running handler
    op,                   \* handler that is running or ran last
    ret,                  \* return value of the handler that ran last
    results,              \* TCROptimizer.results
    sched_results,        \* sched_model.results
    sched_usage,          \* sched_model.traffic_capacity_usage
    sched_fixed,          \* sched_model.fixed_blockings
    sched_built,          \* sched_model.model is not None
    traffic_results,      \* traffic_model.results
    traffic_built,        \* capacity constraints traffic_model.model was built with
    calls,                \* solver calls issued by the running handler, in order
    saved,                \* results as they were when the running handler was entered
    max_iterations,       \* argument of solve_integrated
    iteration,            \* local of solve_integrated
    capacity_blockings,   \* local of solve_integrated / solve_daily
    days_left,            \* solve_daily: affected days not yet visited
    daily_results,        \* local of solve_daily
    sched_cand,           \* scheduling model: the integer assignment the solver is looking at
    sched_sol,            \* scheduling model: the assignment the last successful solve returned
    traffic_cons,         \* traffic model: the constraints the last build posted
    traffic_sol,          \* traffic model: the assignment the last successful solve returned
    heap,                 \* the Results dict objects created so far: heap[i] is the content of object i
    refs                  \* the object each results attribute refers to

coordVars == <<pc, op, ret, results, sched_results, sched_usage, sched_fixed, sched_built,
               traffic_results, traffic_built, calls, saved, max_iterations, iteration,
               capacity_blockings, days_left, daily_results>>

mipVars == <<sched_cand, sched_sol, traffic_cons, traffic_sol>>

objVars == <<heap, refs>>

vars == <<problem, plan, coordVars, mipVars, objVars>>

----------------------------------------------------------------------------
(* Bounds of the model *)

MaxIter == 2
MaxTasks == 2
MaxCount == 2
MaxSolves == 2
MaxObjects == 4
MaxRounds == 1
MaxAmount == 2

(* Grids and defaults *)

AmountScale == 2
UtilScale == 10
DefaultCapacity == 10
DefaultBlockingCost == 1
DefaultCancellationCost == 100
HoursPerDay == 24

----------------------------------------------------------------------------
(* Python values *)

EmptyDict == [k \in {} |-> 0]

IsEmpty(d) == DOMAIN d = {}

NoneDict == [some |-> FALSE, val |-> EmptyDict]

Some(d) == [some |-> TRUE, val |-> d]

NoneInt == [some |-> FALSE, val |-> 0]

SomeInt(x) == [some |-> TRUE, val |-> x]

NoResults == [status |-> "None"]

EmptyResults == [status |-> "empty"]

\* dict.update
DictUpdate(d, e) == [k \in DOMAIN d \cup DOMAIN e |-> IF k \in DOMAIN e THEN e[k] ELSE d[k]]

RECURSIVE SortedSeq(_)
SortedSeq(S) ==
    IF S = {} THEN << >>
    ELSE LET m == CHOOSE x \in S : \A y \in S : x <= y
         IN <<m>> \o SortedSeq(S \ {m})

----------------------------------------------------------------------------
(* Plan *)

SetPlanningPeriod(start_time, end_time, period_length) ==
    [start_time |-> start_time, end_time |-> end_time, period_length |-> period_length,
     num_periods |-> (end_time - start_time) \div period_length]

SetTrafficWindow(p, traffic_start, traffic_end) ==
    [start_time |-> p.start_time, end_time |-> p.end_time, period_length |-> p.period_length,
     num_periods |-> p.num_periods, traffic_start |-> traffic_start, traffic_end |-> traffic_end]

Periods == 0 .. (plan.num_periods - 1)

is_in_traffic_window(time) == plan.traffic_start <= time /\ time <= plan.traffic_end

get_period_start(period_index) == plan.start_time + period_index * plan.period_length

get_period_end(period_index) == plan.start_time + (period_index + 1) * plan.period_length

DateOf(time) == time \div HoursPerDay

DayStart(day) == day * HoursPerDay

DayEnd(day) == day * HoursPerDay + (HoursPerDay - 1)

----------------------------------------------------------------------------
(* Network, demand and routes *)

get_link_capacity(link_id) ==
    IF link_id \in DOMAIN problem.links THEN problem.links[link_id] ELSE DefaultCapacity

get_all_lines == problem.lines

HasRoute(line_id) == line_id \in DOMAIN problem.line_routes

\* the normal route, already split at '-'
get_line_route(line_id) == problem.line_routes[line_id]

SeqRange(s) == {s[i] : i \in DOMAIN s}

RECURSIVE SumOver(_, _)
SumOver(S, d) ==
    IF S = {} THEN 0
    ELSE LET k == CHOOSE x \in S : TRUE IN d[k] + SumOver(S \ {k}, d)

----------------------------------------------------------------------------
(* Results of the two models and the queries on them *)

Success(status) == status \in {"optimal", "feasible"}

SchedResults(out) ==
    [status |-> out.status, start_times |-> out.start_times, blockings |-> out.blockings,
     cancelled_projects |-> out.cancelled_projects]

TrafficResults(out) ==
    [status |-> out.status, flows |-> out.flows, cancelled |-> out.cancelled,
     delayed |-> out.delayed]

\* a query that reports no blocking at all
CapacityBlockingsNone(res) == EmptyDict

\* ProjectSchedulingModel.get_capacity_blockings
get_capacity_blockings(res) ==
    IF res = EmptyResults THEN EmptyDict ELSE res.blockings

\* affected days that ignore the traffic window
AffectedDaysNoWindow(res) ==
    IF res = EmptyResults THEN << >>
    ELSE SortedSeq({ DateOf(get_period_start(k[2])) : k \in DOMAIN res.blockings })

\* ProjectSchedulingModel.get_affected_traffic_days (sorted list of dates)
get_affected_traffic_days(res) ==
    IF res = EmptyResults THEN << >>
    ELSE SortedSeq({ DateOf(get_period_start(k[2])) :
                        k \in { b \in DOMAIN res.blockings :
                                   \/ is_in_traffic_window(get_period_start(b[2]))
                                   \/ is_in_traffic_window(get_period_end(b[2])) } })

\* route variants: the normal route, or the diversion around a blocked link ("div_<link>")
Normal == <<"normal", "">>

Div(blocked_link) == <<"div", blocked_link>>

HasDiversion(line_id, blocked_link) == <<line_id, blocked_link>> \in DOMAIN problem.diversions

get_diversion(line_id, blocked_link) == problem.diversions[<<line_id, blocked_link>>]

\* the links a flow key (line, route_type, period) runs over
FlowLinks(key) ==
    IF key[2] = Normal
    THEN (IF HasRoute(key[1]) THEN SeqRange(get_line_route(key[1])) ELSE {})
    ELSE (IF HasDiversion(key[1], key[2][2])
          THEN SeqRange(get_diversion(key[1], key[2][2]).route) ELSE {})

\* TrafficFlowModel.get_link_flows
get_link_flows(res) ==
    IF res = EmptyResults THEN EmptyDict
    ELSE LET keys == UNION { { <<l, key[3]>> : l \in FlowLinks(key) } : key \in DOMAIN res.flows }
         IN [lk \in keys |->
                SumOver({ key \in DOMAIN res.flows :
                            key[3] = lk[2] /\ lk[1] \in FlowLinks(key) }, res.flows)]

\* TrafficFlowModel.get_capacity_utilization, in tenths
get_capacity_utilization(res) ==
    LET link_flows == get_link_flows(res)
    IN [lk \in DOMAIN link_flows |->
            IF get_link_capacity(lk[1]) > 0
            THEN (link_flows[lk] * UtilScale) \div get_link_capacity(lk[1])
            ELSE UtilScale]

----------------------------------------------------------------------------
(* The solver as the coordinator sees it: a status and, when the status is *)
(* optimal or feasible, the realized values filtered to significant ones   *)

\* dicts with keys in K and values in V
Dicts(K, V) == UNION { [S -> V] : S \in SUBSET K }

BlockingKeys == { <<l, p>> : l \in DOMAIN problem.links, p \in Periods }

\* blockings a scheduling solve may report: none, a full closure in the first period,
\* a full closure in the second period followed by single-track operation in the third
BlockingChoices ==
    { b \in Dicts(BlockingKeys, 1 .. AmountScale) :
        \/ b = EmptyDict
        \/ DOMAIN b = {<<"A_B", 0>>} /\ b[<<"A_B", 0>>] = AmountScale
        \/ /\ DOMAIN b = {<<"A_B", 1>>, <<"A_B", 2>>}
           /\ b[<<"A_B", 1>>] = AmountScale
           /\ b[<<"A_B", 2>>] = 1 }

SchedFailure(status) ==
    [status |-> status, start_times |-> EmptyDict, blockings |-> EmptyDict,
     cancelled_projects |-> {}]

SchedOutcomes ==
    { [status |-> IF IsEmpty(b) THEN "feasible" ELSE "optimal", start_times |-> EmptyDict,
       blockings |-> b, cancelled_projects |-> {}] : b \in BlockingChoices }
    \cup { SchedFailure("infeasible") }

\* Routes.get_all_links_for_line
get_all_links_for_line(line_id) ==
    IF HasRoute(line_id) THEN SeqRange(get_line_route(line_id)) ELSE {}

\* the route variants of a line: its normal route and one diversion per link of the
\* normal route that has one
RouteVariants(line_id) ==
    {Normal} \cup { Div(link_id) : link_id \in { l \in get_all_links_for_line(line_id) :
                                                   HasDiversion(line_id, l) } }

\* a line with a route has one flow variable per route variant and per period whose start
\* lies in the traffic window
FlowKeys ==
    UNION { { <<line_id, variant, p>> :
                variant \in RouteVariants(line_id),
                p \in { q \in Periods : is_in_traffic_window(get_period_start(q)) } } :
              line_id \in { l \in get_all_lines : HasRoute(l) } }

TrafficFailure(status) ==
    [status |-> status, flows |-> EmptyDict, cancelled |-> EmptyDict, delayed |-> EmptyDict]

\* flows a traffic solve may report: none (all cancelled), or five trains in one period
FlowChoices ==
    { f \in Dicts(FlowKeys, {5}) : Cardinality(DOMAIN f) <= 1 /\ \A k \in DOMAIN f : k[3] <= 1 }

TrafficOutcomes ==
    { [status |-> IF IsEmpty(f) THEN "feasible" ELSE "optimal", flows |-> f,
       cancelled |-> IF IsEmpty(f) THEN [l \in get_all_lines |-> AmountScale] ELSE EmptyDict,
       delayed |-> EmptyDict] : f \in FlowChoices }
    \cup { TrafficFailure("timelimit") }

----------------------------------------------------------------------------
(* TCROptimizer *)

\* a solver call: which model, the capacity constraints it was built with, whether it
\* succeeded and, for a scheduling solve, the blockings it produced
Call(kind, cc, out) ==
    [kind |-> kind, cc |-> cc, ok |-> Success(out.status),
     blockings |-> IF kind = "sched" /\ Success(out.status) THEN out.blockings ELSE EmptyDict]

\* ProjectSchedulingModel.add_fixed_blockings, when blockings are given
AddFixed(fixed) == IF fixed.some THEN DictUpdate(sched_fixed, fixed.val) ELSE sched_fixed

\* a solve that replaces the results whatever the status
SchedModelSolveAlways(out) == SchedResults(out)

\* ProjectSchedulingModel.solve: results are replaced on optimal/feasible only
SchedModelSolve(out) == IF Success(out.status) THEN SchedResults(out) ELSE sched_results

\* a traffic solve that replaces the results whatever the status
TrafficModelSolveAlways(old, out) == TrafficResults(out)

\* TrafficFlowModel.solve
TrafficModelSolve(old, out) == IF Success(out.status) THEN TrafficResults(out) ELSE old

\* solve_scheduling(fixed_blockings): add, build, solve, store on success
DoSolveScheduling(fixed, out) ==
    /\ sched_fixed' = AddFixed(fixed)
    /\ sched_built' = TRUE
    /\ sched_results' = SchedModelSolve(out)
    /\ results' = IF Success(out.status)
                  THEN [results EXCEPT !.sched = SchedModelSolve(out)]
                  ELSE results

\* solve_traffic(capacity_constraints): build, solve, store on success
DoSolveTraffic(cc, out) ==
    /\ traffic_built' = cc
    /\ traffic_results' = TrafficModelSolve(traffic_results, out)
    /\ results' = IF Success(out.status)
                  THEN [results EXCEPT !.traffic = TrafficModelSolve(traffic_results, out)]
                  ELSE results

\* a handler reaches a return statement
Return(value) ==
    /\ pc' = "return"
    /\ ret' = value

Enter(name) ==
    /\ pc = "idle"
    /\ op' = name
    /\ calls' = << >>
    /\ saved' = results

\* arguments the callers pass
FixedChoices == {NoneDict} \cup { Some(d) : d \in { b \in BlockingChoices : Cardinality(DOMAIN b) = 1 } }

ConstraintChoices == {NoneDict} \cup { Some(d) : d \in { b \in BlockingChoices : Cardinality(DOMAIN b) = 1 } }

IterationChoices == -1 .. MaxIter

\* a solve_scheduling that forgets the utilization the scheduling model was given
SolveSchedulingResetsUsage ==
    /\ Enter("scheduling")
    /\ \E fixed \in FixedChoices, out \in SchedOutcomes :
          /\ DoSolveScheduling(fixed, out)
          /\ Return(IF Success(out.status) THEN "True" ELSE "False")
    /\ sched_usage' = NoneDict
    /\ UNCHANGED <<objVars, problem, plan, mipVars, traffic_results, traffic_built, max_iterations,
                   iteration, capacity_blockings, days_left, daily_results>>

\* solve_scheduling called by the user
SolveScheduling ==
    /\ Enter("scheduling")
    /\ \E fixed \in FixedChoices, out \in SchedOutcomes :
          /\ DoSolveScheduling(fixed, out)
          /\ Return(IF Success(out.status) THEN "True" ELSE "False")
    /\ UNCHANGED <<objVars, problem, plan, mipVars, sched_usage, traffic_results, traffic_built, max_iterations,
                   iteration, capacity_blockings, days_left, daily_results>>

\* solve_traffic called by the user
SolveTraffic ==
    /\ Enter("traffic")
    /\ \E cc \in ConstraintChoices, out \in TrafficOutcomes :
          /\ DoSolveTraffic(cc, out)
          /\ Return(IF Success(out.status) THEN "True" ELSE "False")
    /\ UNCHANGED <<objVars, problem, plan, mipVars, sched_results, sched_usage, sched_fixed, sched_built,
                   max_iterations, iteration, capacity_blockings, days_left, daily_results>>

\* a while condition that lets one round too many in
LoopContinuesInclusive(converged, it, max_it) == ~converged /\ it <= max_it

\* the while condition of solve_integrated
LoopContinues(converged, it, max_it) == ~converged /\ it < max_it

\* a convergence test that is one round early
ReachedMaxEarly(it, max_it) == it + 1 >= max_it

\* the convergence test of solve_integrated
ReachedMax(it, max_it) == it >= max_it

\* solve_integrated is entered
SolveIntegrated ==
    /\ Enter("integrated")
    /\ \E n \in IterationChoices : max_iterations' = n
    /\ pc' = "int_undisturbed"
    /\ ret' = "none"
    /\ iteration' = 0
    /\ UNCHANGED <<objVars, problem, plan, mipVars, results, sched_results, sched_usage, sched_fixed, sched_built,
                   traffic_results, traffic_built, capacity_blockings, days_left, daily_results>>

\* step 1 and 2: the undisturbed traffic solve, its utilization goes to the scheduling model
IntUndisturbed ==
    /\ pc = "int_undisturbed"
    /\ \E out \in TrafficOutcomes :
          /\ DoSolveTraffic(NoneDict, out)
          /\ calls' = Append(calls, Call("traffic", NoneDict, out))
          /\ IF ~Success(out.status)
             THEN Return("False") /\ UNCHANGED sched_usage
             ELSE /\ sched_usage' = Some(get_capacity_utilization(TrafficModelSolve(traffic_results, out)))
                  /\ IF LoopContinues(FALSE, 0, max_iterations)
                     THEN pc' = "int_sched" /\ UNCHANGED ret
                     ELSE Return("True")
    /\ UNCHANGED <<objVars, problem, plan, mipVars, op, saved, sched_results, sched_fixed, sched_built,
                   max_iterations, iteration, capacity_blockings, days_left, daily_results>>

\* a scheduling step that goes on to the traffic solve whatever the status
IntSchedNoAbort ==
    /\ pc = "int_sched"
    /\ \E out \in SchedOutcomes :
          /\ DoSolveScheduling(NoneDict, out)
          /\ calls' = Append(calls, Call("sched", NoneDict, out))
          /\ pc' = "int_traffic"
          /\ capacity_blockings' = get_capacity_blockings(SchedModelSolve(out))
          /\ UNCHANGED ret
    /\ iteration' = iteration + 1
    /\ UNCHANGED <<objVars, problem, plan, mipVars, op, saved, sched_usage, traffic_results, traffic_built,
                   max_iterations, days_left, daily_results>>

\* step 3.1: the scheduling solve of a round
IntSched ==
    /\ pc = "int_sched"
    /\ \E out \in SchedOutcomes :
          /\ DoSolveScheduling(NoneDict, out)
          /\ calls' = Append(calls, Call("sched", NoneDict, out))
          /\ IF ~Success(out.status)
             THEN Return("False") /\ UNCHANGED capacity_blockings
             ELSE /\ pc' = "int_traffic"
                  /\ capacity_blockings' = get_capacity_blockings(SchedModelSolve(out))
                  /\ UNCHANGED ret
    /\ iteration' = iteration + 1
    /\ UNCHANGED <<objVars, problem, plan, mipVars, op, saved, sched_usage, traffic_results, traffic_built,
                   max_iterations, days_left, daily_results>>

\* step 3.2 and 3.3: the constrained traffic solve of a round, then the convergence test
IntTraffic ==
    /\ pc = "int_traffic"
    /\ \E out \in TrafficOutcomes :
          /\ DoSolveTraffic(Some(capacity_blockings), out)
          /\ calls' = Append(calls, Call("traffic", Some(capacity_blockings), out))
          /\ IF ~Success(out.status)
             THEN Return("False") /\ UNCHANGED sched_usage
             ELSE LET converged == ReachedMax(iteration, max_iterations)
                  IN /\ sched_usage' =
                          IF ~converged
                          THEN Some(get_capacity_utilization(TrafficModelSolve(traffic_results, out)))
                          ELSE sched_usage
                     /\ IF LoopContinues(converged, iteration, max_iterations)
                        THEN pc' = "int_sched" /\ UNCHANGED ret
                        ELSE Return("True")
    /\ UNCHANGED <<objVars, problem, plan, mipVars, op, saved, sched_results, sched_fixed, sched_built,
                   max_iterations, iteration, capacity_blockings, days_left, daily_results>>

\* day blockings that are not filtered by the day
DayBlockingsAll(blockings, day) == blockings

\* the blockings of a day: those whose period starts within the calendar day
DayBlockings(blockings, day) ==
    LET keys == { k \in DOMAIN blockings :
                    /\ DayStart(day) <= get_period_start(k[2])
                    /\ get_period_start(k[2]) <= DayEnd(day) }
    IN [k \in keys |-> blockings[k]]

\* a return value that reports success whatever the daily results
DailyReturnAlways(daily) == "True"

\* the value solve_daily returns
DailyReturn(daily) == IF ~IsEmpty(daily) THEN "True" ELSE "False"

\* solve_daily is entered
SolveDaily ==
    /\ Enter("daily")
    /\ pc' = "day_sched"
    /\ ret' = "none"
    /\ UNCHANGED <<objVars, problem, plan, mipVars, results, sched_results, sched_usage, sched_fixed, sched_built,
                   traffic_results, traffic_built, max_iterations, iteration,
                   capacity_blockings, days_left, daily_results>>

\* step 1: the scheduling solve, then the blockings and the affected days are read
DaySched ==
    /\ pc = "day_sched"
    /\ \E out \in SchedOutcomes :
          /\ DoSolveScheduling(NoneDict, out)
          /\ calls' = Append(calls, Call("sched", NoneDict, out))
          /\ IF ~Success(out.status)
             THEN Return("False") /\ UNCHANGED <<capacity_blockings, days_left>>
             ELSE /\ pc' = "day_loop"
                  /\ capacity_blockings' = get_capacity_blockings(SchedModelSolve(out))
                  /\ days_left' = get_affected_traffic_days(SchedModelSolve(out))
                  /\ UNCHANGED ret
    /\ UNCHANGED <<objVars, problem, plan, mipVars, op, saved, sched_usage, traffic_results, traffic_built,
                   max_iterations, iteration, daily_results>>

\* step 2: one pass of the loop over the affected days, with a model of its own
DayLoop ==
    /\ pc = "day_loop"
    /\ days_left # << >>
    /\ LET day == Head(days_left)
           day_blockings == DayBlockings(capacity_blockings, day)
       IN IF IsEmpty(day_blockings)
          THEN UNCHANGED <<calls, daily_results>>
          ELSE \E out \in TrafficOutcomes :
                  /\ calls' = Append(calls, Call("day", Some(day_blockings), out))
                  /\ daily_results' =
                        IF Success(out.status)
                        THEN DictUpdate(daily_results, day :> TrafficModelSolve(EmptyResults, out))
                        ELSE daily_results
    /\ days_left' = Tail(days_left)
    /\ UNCHANGED <<objVars, problem, plan, mipVars, pc, op, ret, saved, results, sched_results, sched_usage,
                   sched_fixed, sched_built, traffic_results, traffic_built, max_iterations,
                   iteration, capacity_blockings>>

\* the loop is over: the daily results are stored and solve_daily returns
DayFinish ==
    /\ pc = "day_loop"
    /\ days_left = << >>
    /\ results' = [results EXCEPT !.daily_traffic = Some(daily_results)]
    /\ Return(DailyReturn(daily_results))
    /\ UNCHANGED <<objVars, problem, plan, mipVars, op, saved, calls, sched_results, sched_usage, sched_fixed,
                   sched_built, traffic_results, traffic_built, max_iterations, iteration,
                   capacity_blockings, days_left, daily_results>>

\* the caller has the return value: the locals of the handler are gone
Finish ==
    /\ pc = "return"
    /\ pc' = "idle"
    /\ op' = "none"
    /\ ret' = "none"
    /\ calls' = << >>
    /\ saved' = results
    /\ max_iterations' = 0
    /\ iteration' = 0
    /\ capacity_blockings' = EmptyDict
    /\ days_left' = << >>
    /\ daily_results' = EmptyDict
    /\ UNCHANGED <<objVars, problem, plan, mipVars, results, sched_results, sched_usage, sched_fixed, sched_built,
                   traffic_results, traffic_built>>

----------------------------------------------------------------------------
(* The coordinator after initialize_models, on a plan of three periods of  *)
(* twelve hours whose traffic window is the whole plan                     *)

CoordProblem ==
    [links |-> [l \in {"A_B"} |-> DefaultCapacity],
     lines |-> {"L1"},
     line_routes |-> [l \in {"L1"} |-> <<"A_B">>],
     diversions |-> EmptyDict,
     projects |-> EmptyDict,
     blocking_cost |-> DefaultBlockingCost,
     cancellation_cost |-> DefaultCancellationCost]

CoordPlan == SetTrafficWindow(SetPlanningPeriod(0, 36, 12), 0, 36)

InitCoordinator ==
    /\ pc = "idle"
    /\ op = "none"
    /\ ret = "none"
    /\ results = [sched |-> NoResults, traffic |-> NoResults, daily_traffic |-> NoneDict]
    /\ sched_results = EmptyResults
    /\ sched_usage = NoneDict
    /\ sched_fixed = EmptyDict
    /\ sched_built = FALSE
    /\ traffic_results = EmptyResults
    /\ traffic_built = NoneDict
    /\ calls = << >>
    /\ saved = [sched |-> NoResults, traffic |-> NoResults, daily_traffic |-> NoneDict]
    /\ max_iterations = 0
    /\ iteration = 0
    /\ capacity_blockings = EmptyDict
    /\ days_left = << >>
    /\ daily_results = EmptyDict

NoAssignment == [valid |-> FALSE]

NotBuilt == [built |-> FALSE]

\* a results attribute that no solve has set: the {} of __init__, or a missing key
NoObject == 0

NoRefs ==
    [sched_model |-> NoObject, traffic_model |-> NoObject, sched |-> NoObject,
     traffic |-> NoObject, daily_traffic |-> NoneDict]

InitModels ==
    /\ sched_cand = NoAssignment
    /\ sched_sol = NoAssignment
    /\ traffic_cons = NotBuilt
    /\ traffic_sol = NoAssignment
    /\ heap = << >>
    /\ refs = NoRefs

Init ==
    /\ problem = CoordProblem
    /\ plan = CoordPlan
    /\ InitCoordinator
    /\ InitModels

Next ==
    \/ SolveScheduling
    \/ SolveTraffic
    \/ SolveIntegrated
    \/ IntUndisturbed
    \/ IntSched
    \/ IntTraffic
    \/ SolveDaily
    \/ DaySched
    \/ DayLoop
    \/ DayFinish
    \/ Finish

Spec == Init /\ [][Next]_vars

----------------------------------------------------------------------------
(* Properties of the coordinator *)

AllOk(log) == \A i \in 1 .. Len(log) : log[i].ok

SomeFailed(log) == \E i \in 1 .. Len(log) : ~log[i].ok

\* the failed call, if any, is the last one issued
FailedLast(log) == \A i \in 1 .. Len(log) : ~log[i].ok => i = Len(log)

\* one unconstrained traffic solve, then n rounds of a scheduling solve and a traffic
\* solve constrained by the blockings that scheduling solve produced
IntegratedPattern(log, n) ==
    /\ Len(log) = 1 + 2 * n
    /\ log[1].kind = "traffic" /\ log[1].cc = NoneDict
    /\ \A r \in 1 .. n :
          /\ log[2 * r].kind = "sched"
          /\ log[2 * r + 1].kind = "traffic"
          /\ log[2 * r + 1].cc = Some(log[2 * r].blockings)

\* C1: solve_integrated(max_iterations = N), N >= 1, with every sub-solve successful,
\* returns true after exactly one unconstrained traffic solve followed by N rounds of
\* (scheduling solve, traffic solve constrained by that round's blockings); it never
\* returns after fewer rounds, whatever the utilizations were.
C1_IntegratedOrder ==
    (pc = "return" /\ op = "integrated" /\ max_iterations >= 1 /\ AllOk(calls))
        => (ret = "True" /\ IntegratedPattern(calls, max_iterations))

\* two rounds were run although both traffic solves of the rounds gave the same result
C1_Witness ==
    /\ pc = "return" /\ op = "integrated" /\ ret = "True"
    /\ max_iterations = 2 /\ Len(calls) = 5 /\ AllOk(calls)
    /\ calls[3].cc = calls[5].cc

\* C2: in solve_integrated a failed sub-solve is the last solve issued, and
\* solve_integrated returns false right after it.
C2_IntegratedAbort ==
    (op = "integrated" /\ SomeFailed(calls))
        => (pc = "return" /\ ret = "False" /\ FailedLast(calls))

\* the scheduling solve of the second round failed
C2_Witness ==
    /\ op = "integrated" /\ pc = "return" /\ ret = "False"
    /\ Len(calls) = 4 /\ ~calls[4].ok

\* C3: in solve_daily, once the traffic solve of an affected day has failed no further
\* day is solved, and solve_daily returns false.
C3_DailyAbort ==
    (op = "daily" /\ SomeFailed(calls))
        => (FailedLast(calls) /\ (pc = "return" => ret = "False"))

\* C4: when solve_integrated or solve_daily returns false, results['sched'],
\* results['traffic'] and results['daily_traffic'] are what they were when the call began.
C4_NoPartialResults ==
    (pc = "return" /\ op \in {"integrated", "daily"} /\ ret = "False")
        => results = saved

\* the blockings of the scheduling solve whose period starts on a calendar day
BlockingsOn(blockings, day) ==
    [k \in { x \in DOMAIN blockings : DateOf(get_period_start(x[2])) = day } |-> blockings[k]]

\* solve_daily has returned after a successful scheduling solve
DailyDone == op = "daily" /\ pc = "return" /\ Len(calls) >= 1 /\ calls[1].ok

\* C12: in solve_daily after a successful scheduling solve, each affected traffic day
\* gets a traffic model of its own whose capacity constraints are exactly the scheduling
\* blockings whose period starts within that day; a successful day stores one Results
\* under its date, and the daily results hold no date that is not an affected day.
C12_DailyModels ==
    DailyDone =>
        LET days == get_affected_traffic_days(sched_results)
        IN /\ Len(calls) = Len(days) + 1
           /\ \A i \in 1 .. Len(days) :
                 /\ calls[i + 1].kind = "day"
                 /\ calls[i + 1].cc = Some(BlockingsOn(calls[1].blockings, days[i]))
                 /\ calls[i + 1].ok <=> days[i] \in DOMAIN daily_results
                 /\ calls[i + 1].ok => Success(daily_results[days[i]].status)
           /\ DOMAIN daily_results \subseteq SeqRange(days)
           /\ results.daily_traffic = Some(daily_results)

\* solve_daily has solved two days, each with its own blockings
C12_Witness ==
    /\ DailyDone
    /\ Len(calls) = 3
    /\ calls[2].ok /\ calls[3].ok
    /\ calls[2].cc # calls[3].cc
    /\ Cardinality(DOMAIN daily_results) = 2

\* C13: when the scheduling solve inside solve_daily succeeds without any blocking,
\* no traffic model is solved, the daily results are empty and solve_daily returns false.
C13_NoBlockingsNoDays ==
    (DailyDone /\ IsEmpty(calls[1].blockings)) =>
        /\ Len(calls) = 1
        /\ results.daily_traffic = Some(EmptyDict)
        /\ ret = "False"

\* solve_daily has returned after a scheduling solve without blockings
C13_Witness ==
    /\ DailyDone /\ IsEmpty(calls[1].blockings)
    /\ ret = "False"

\* C20: in every round of solve_integrated, the last one included, once the constrained
\* traffic solve has succeeded the scheduling model's traffic_capacity_usage is the
\* utilization of that traffic solution.
C20_UsageFedBack ==
    (/\ op = "integrated"
     /\ Len(calls) >= 2
     /\ calls[Len(calls)].kind = "traffic"
     /\ calls[Len(calls)].ok) =>
        sched_usage = Some(get_capacity_utilization(traffic_results))

----------------------------------------------------------------------------
(* ProjectSchedulingModel.build_model: variables and constraints            *)
(*                                                                         *)
(* problem.projects maps a project id to [earliest_start, latest_end,      *)
(* tasks]; a task is addressed by its place in the project's task list.    *)
(* An assignment a gives a.start[instance], a.cancel[project],             *)
(* a.aux[key] and a.blocking[link, period] (in halves).                    *)

ProjectIds == DOMAIN problem.projects

TasksOf(pid) == problem.projects[pid].tasks

\* one start variable per repetition of a task: (project, task, repetition)
TaskKeys == UNION { { <<pid, t>> : t \in 1 .. Len(TasksOf(pid)) } : pid \in ProjectIds }

StartKeys ==
    UNION { { <<tk[1], tk[2], i>> : i \in 0 .. (TasksOf(tk[1])[tk[2]].count - 1) } :
              tk \in TaskKeys }

\* int(task['duration'] / period_length) and the like
ToPeriods(hours) == hours \div plan.period_length

\* a duration in periods that is rounded up to one period
DurationPeriodsAtLeastOne(task) ==
    IF ToPeriods(task.duration) = 0 THEN 1 ELSE ToPeriods(task.duration)

duration_periods(task) == ToPeriods(task.duration)

\* Plan.get_period_index
get_period_index(time) ==
    IF time < plan.start_time \/ time > plan.end_time
    THEN NoneInt
    ELSE SomeInt((time - plan.start_time) \div plan.period_length)

\* task.get(...) or project.get(...)
OrElse(task_value, project_value) == IF task_value.some THEN task_value ELSE project_value

earliest_period(pid, t) ==
    LET earliest_start == OrElse(TasksOf(pid)[t].earliest_start, problem.projects[pid].earliest_start)
    IN IF earliest_start.some THEN get_period_index(earliest_start.val) ELSE SomeInt(0)

latest_period(pid, t) ==
    LET latest_end == OrElse(TasksOf(pid)[t].latest_end, problem.projects[pid].latest_end)
    IN IF latest_end.some THEN get_period_index(latest_end.val)
       ELSE SomeInt(plan.num_periods - 1)

\* start >= earliest_period * (1 - cancel)
EarliestCons(a, k) ==
    earliest_period(k[1], k[2]).some
        => a.start[k] >= earliest_period(k[1], k[2]).val * (1 - a.cancel[k[1]])

\* start <= max_start + num_periods * cancel, posted when max_start >= 0
max_start(pid, t) == latest_period(pid, t).val - duration_periods(TasksOf(pid)[t]) + 1

LatestPosted(pid, t) == latest_period(pid, t).some /\ max_start(pid, t) >= 0

LatestCons(a, k) ==
    LatestPosted(k[1], k[2])
        => a.start[k] <= max_start(k[1], k[2]) + plan.num_periods * a.cancel[k[1]]

TimeWindowCons(a, pid) ==
    \A k \in StartKeys : k[1] = pid => (EarliestCons(a, k) /\ LatestCons(a, k))

\* a minimum-rest constraint that leaves out the duration of the first task
MinRestConsNoDuration(a, pid, key1, key2, duration, min_rest) ==
    a.start[key2] >= a.start[key1] + min_rest - plan.num_periods * a.cancel[pid]

\* start2 >= start1 + duration + min_rest - num_periods * cancel
MinRestCons(a, pid, key1, key2, duration, min_rest) ==
    a.start[key2] >= a.start[key1] + duration + min_rest - plan.num_periods * a.cancel[pid]

\* start2 <= start1 + duration + max_rest + num_periods * cancel, when a maximum is given
MaxRestCons(a, pid, key1, key2, duration, max_rest) ==
    max_rest.some
        => a.start[key2] <= a.start[key1] + duration + ToPeriods(max_rest.val)
                               + plan.num_periods * a.cancel[pid]

\* between the repetitions of a task
BetweenCons(a, pid) ==
    \A t \in 1 .. Len(TasksOf(pid)) :
        LET task == TasksOf(pid)[t]
        IN \A i \in 0 .. (task.count - 2) :
              /\ MinRestCons(a, pid, <<pid, t, i>>, <<pid, t, i + 1>>, duration_periods(task),
                             ToPeriods(task.min_rest_between))
              /\ MaxRestCons(a, pid, <<pid, t, i>>, <<pid, t, i + 1>>, duration_periods(task),
                             task.max_rest_between)

\* between the last repetition of a task and the first repetition of the next task
AfterCons(a, pid) ==
    \A t \in 1 .. (Len(TasksOf(pid)) - 1) :
        LET task1 == TasksOf(pid)[t]
            key1 == <<pid, t, task1.count - 1>>
            key2 == <<pid, t + 1, 0>>
        IN /\ MinRestCons(a, pid, key1, key2, duration_periods(task1),
                          ToPeriods(task1.min_rest_after))
           /\ MaxRestCons(a, pid, key1, key2, duration_periods(task1), task1.max_rest_after)

SequenceCons(a, pid) == BetweenCons(a, pid) /\ AfterCons(a, pid)

\* 0.5 if amount == 'esp' else float(amount), in halves
blocking_value(amount) ==
    IF amount = "esp" THEN 1
    ELSE IF amount = "1.0" THEN AmountScale
    ELSE IF amount = "0.5" THEN 1
    ELSE 0

\* one auxiliary binary per instance, blocked link, period and offset
AuxKeysOf(k) ==
    LET task == TasksOf(k[1])[k[2]]
    IN { <<k[1], k[2], k[3], b.link, period, offset>> :
           b \in SeqRange(task.traffic_blocking), period \in Periods,
           offset \in 0 .. (duration_periods(task) - 1) }

PostedAuxKeys == UNION { AuxKeysOf(k) : k \in StartKeys }

AmountOf(x) ==
    LET task == TasksOf(x[1])[x[2]]
        j == CHOOSE j \in DOMAIN task.traffic_blocking : task.traffic_blocking[j].link = x[4]
    IN blocking_value(task.traffic_blocking[j].amount)

\* start_var + offset <= period + num_periods * aux_var
Aux1Cons(start, offset, period, aux) == start + offset <= period + plan.num_periods * aux

\* start_var + offset >= period + 1 - num_periods * (1 - aux_var)
Aux2Cons(start, offset, period, aux) == start + offset >= period + 1 - plan.num_periods * (1 - aux)

\* blocking[link, period] >= blocking_value * (1 - aux_var) * (1 - cancel_var)
BlockingCons(blocking, value, aux, cancel) == blocking >= value * (1 - aux) * (1 - cancel)

LinkageCons(a) ==
    \A x \in PostedAuxKeys :
        /\ BlockingCons(a.blocking[<<x[4], x[5]>>], AmountOf(x), a.aux[x], a.cancel[x[1]])
        /\ Aux1Cons(a.start[<<x[1], x[2], x[3]>>], x[6], x[5], a.aux[x])
        /\ Aux2Cons(a.start[<<x[1], x[2], x[3]>>], x[6], x[5], a.aux[x])

\* blocking[link, period] >= blocked_amount for the fixed blockings inside the model
FixedCons(a) ==
    \A fk \in DOMAIN sched_fixed : fk \in BlockingKeys => a.blocking[fk] >= sched_fixed[fk]

\* the ranges given to addVar
VarBounds(a) ==
    /\ \A k \in StartKeys : 0 <= a.start[k] /\ a.start[k] <= plan.num_periods - 1
    /\ \A pid \in ProjectIds : a.cancel[pid] \in {0, 1}
    /\ \A x \in PostedAuxKeys : a.aux[x] \in {0, 1}
    /\ \A bk \in BlockingKeys : 0 <= a.blocking[bk] /\ a.blocking[bk] <= AmountScale

SchedFeasible(a) ==
    /\ VarBounds(a)
    /\ \A pid \in ProjectIds : TimeWindowCons(a, pid) /\ SequenceCons(a, pid)
    /\ LinkageCons(a)
    /\ FixedCons(a)

\* the objective, in units of 1 / (AmountScale * UtilScale)
UsageGiven == sched_usage.some /\ ~IsEmpty(sched_usage.val)

traffic_usage(bk) == IF bk \in DOMAIN sched_usage.val THEN sched_usage.val[bk] ELSE 0

BlockingWeight(bk) == IF UsageGiven THEN traffic_usage(bk) ELSE UtilScale

RECURSIVE WeightedSum(_, _)
WeightedSum(keys, a) ==
    IF keys = {} THEN 0
    ELSE LET bk == CHOOSE x \in keys : TRUE
         IN a.blocking[bk] * BlockingWeight(bk) * problem.blocking_cost
            + WeightedSum(keys \ {bk}, a)

RECURSIVE CancelSum(_, _)
CancelSum(pids, a) ==
    IF pids = {} THEN 0
    ELSE LET pid == CHOOSE x \in pids : TRUE
         IN a.cancel[pid] * problem.cancellation_cost * AmountScale * UtilScale
            + CancelSum(pids \ {pid}, a)

SchedObjective(a) == CancelSum(ProjectIds, a) + WeightedSum(BlockingKeys, a)

----------------------------------------------------------------------------
(* The solver on the scheduling model: it checks points of the variable    *)
(* ranges against the constraints and returns a status with, on optimal or *)
(* feasible, an assignment that satisfies every constraint                 *)

StartAssignments == [StartKeys -> Periods]

CancelAssignments == [ProjectIds -> {0, 1}]

BlockingAssignments == [BlockingKeys -> 0 .. AmountScale]

\* the values of the auxiliary binaries that their two constraints allow
AuxValues(start, x) ==
    { v \in {0, 1} : /\ Aux1Cons(start[<<x[1], x[2], x[3]>>], x[6], x[5], v)
                     /\ Aux2Cons(start[<<x[1], x[2], x[3]>>], x[6], x[5], v) }

RECURSIVE AuxAssignments(_, _)
AuxAssignments(keys, start) ==
    IF keys = {} THEN {EmptyDict}
    ELSE LET x == CHOOSE y \in keys : TRUE
         IN { (x :> v) @@ rest : v \in AuxValues(start, x),
                                 rest \in AuxAssignments(keys \ {x}, start) }

Assignment(start, cancel, aux, blocking) ==
    [valid |-> TRUE, start |-> start, cancel |-> cancel, aux |-> aux, blocking |-> blocking]

SchedSolutions ==
    UNION { { a \in { Assignment(start, cancel, aux, blocking) :
                        aux \in AuxAssignments(PostedAuxKeys, start),
                        blocking \in BlockingAssignments } : SchedFeasible(a) } :
              start \in StartAssignments, cancel \in CancelAssignments }

\* the least objective value over a non-empty set of solutions
BestObjective(solutions) ==
    LET values == { SchedObjective(a) : a \in solutions }
    IN CHOOSE m \in values : \A n \in values : m <= n

\* ProjectSchedulingModel.solve: the values read back from the solver
ExtractSched(status, a) ==
    [status |-> status,
     start_times |-> a.start,
     blockings |-> [bk \in { x \in BlockingKeys : a.blocking[x] > 0 } |-> a.blocking[bk]],
     cancelled_projects |-> { pid \in ProjectIds : a.cancel[pid] = 1 }]

restOfCoordinator ==
    <<pc, op, ret, results, sched_usage, sched_fixed, traffic_results, traffic_built, calls,
      saved, max_iterations, iteration, capacity_blockings, days_left, daily_results>>

\* ProjectSchedulingModel.build_model
SchedBuild ==
    /\ ~sched_built
    /\ sched_built' = TRUE
    /\ UNCHANGED <<objVars, problem, plan, restOfCoordinator, sched_results, mipVars>>

\* the solver evaluates the time window and sequencing constraints at a point
SchedCheck ==
    /\ sched_built /\ ~sched_cand.valid /\ ~sched_sol.valid
    /\ \E start \in StartAssignments, cancel \in CancelAssignments :
          sched_cand' =
            [valid |-> TRUE, start |-> start, cancel |-> cancel,
             window_ok |-> [pid \in ProjectIds |->
                             TimeWindowCons([start |-> start, cancel |-> cancel], pid)],
             sequence_ok |-> [pid \in ProjectIds |->
                               SequenceCons([start |-> start, cancel |-> cancel], pid)]]
    /\ UNCHANGED <<objVars, problem, plan, coordVars, sched_sol, traffic_cons, traffic_sol>>

\* ProjectSchedulingModel.solve on a built model
SchedSolve ==
    /\ sched_built /\ ~sched_cand.valid /\ ~sched_sol.valid
    /\ \E solutions \in {SchedSolutions} :
          \/ /\ \E status \in {"timelimit"} \cup (IF solutions = {} THEN {"infeasible"} ELSE {}) :
                   sched_results' = SchedModelSolve(SchedFailure(status))
             /\ UNCHANGED sched_sol
          \/ /\ solutions # {}
             /\ \E best \in {BestObjective(solutions)} :
                   \E a \in solutions :
                      /\ sched_sol' = a
                      /\ sched_results' =
                            SchedModelSolve(ExtractSched(IF SchedObjective(a) = best
                                                         THEN "optimal" ELSE "feasible", a))
    /\ UNCHANGED <<objVars, problem, plan, restOfCoordinator, sched_built, sched_cand, traffic_cons,
                   traffic_sol>>

NextSched == SchedBuild \/ SchedCheck \/ SchedSolve

----------------------------------------------------------------------------
(* Scheduling problems: one project on the link A_B, on a plan of seven    *)
(* hours in periods of two hours (three periods)                           *)

SchedPlan == SetTrafficWindow(SetPlanningPeriod(0, 7, 2), 0, 7)

Task(duration, count, min_rest_between, max_rest_between, min_rest_after, max_rest_after, earliest_start, latest_end, amount) ==
    [duration |-> duration, count |-> count,
     min_rest_between |-> min_rest_between, max_rest_between |-> max_rest_between,
     min_rest_after |-> min_rest_after, max_rest_after |-> max_rest_after,
     earliest_start |-> earliest_start, latest_end |-> latest_end,
     traffic_blocking |-> << [link |-> "A_B", amount |-> amount] >>]

Project(earliest_start, latest_end, tasks) ==
    [earliest_start |-> earliest_start, latest_end |-> latest_end, tasks |-> tasks]

SchedProblem(project) ==
    [links |-> [l \in {"A_B"} |-> DefaultCapacity],
     lines |-> {},
     line_routes |-> EmptyDict,
     diversions |-> EmptyDict,
     projects |-> [pid \in {"P1"} |-> project],
     blocking_cost |-> DefaultBlockingCost,
     cancellation_cost |-> DefaultCancellationCost]

\* window dates: none, inside the plan, before its start, at and after its end
EarliestChoices == {NoneInt, SomeInt(2), SomeInt(-3), SomeInt(9)}

LatestChoices == {NoneInt, SomeInt(1), SomeInt(3), SomeInt(6), SomeInt(12)}

\* a single task with a window of its own and a window of its project
WindowProblems ==
    { SchedProblem(Project(pe, pl, << Task(d, 1, 0, NoneInt, 0, NoneInt, e, l, "1.0") >>)) :
        d \in {1, 2, 4}, e \in EarliestChoices, l \in LatestChoices,
        pe \in {NoneInt, SomeInt(4)}, pl \in {NoneInt, SomeInt(3)} }

\* a repeated task, followed by up to MaxTasks - 1 single-track tasks of one period
FollowUp == Task(2, 1, 0, NoneInt, 0, NoneInt, NoneInt, NoneInt, "esp")

SequenceProblems ==
    { SchedProblem(Project(NoneInt, NoneInt,
                           << Task(d, c, rb, mrb, ra, mra, NoneInt, NoneInt, "1.0") >>
                           \o [j \in 1 .. (n - 1) |-> FollowUp])) :
        d \in {1, 2}, c \in 1 .. MaxCount, rb \in {0, 2}, mrb \in {NoneInt, SomeInt(2)},
        ra \in {0, 2}, mra \in {NoneInt, SomeInt(0)}, n \in 1 .. MaxTasks }

InitSched ==
    /\ problem \in WindowProblems \cup SequenceProblems
    /\ plan = SchedPlan
    /\ InitCoordinator
    /\ InitModels

SpecSched == InitSched /\ [][NextSched]_vars

----------------------------------------------------------------------------
(* Properties of the scheduling model *)

StartOf(a, x) == a.start[<<x[1], x[2], x[3]>>]

\* C5: in every feasible assignment the auxiliary binary of (instance, offset, period)
\* is 0 if and only if start + offset = period.
C5_AuxZeroIffOccupied ==
    sched_sol.valid
        => \A x \in PostedAuxKeys :
              (sched_sol.aux[x] = 0) <=> (StartOf(sched_sol, x) + x[6] = x[5])

\* the occupancy window [start, start + duration_periods - 1] of an instance covers a period
Occupies(a, k, period) ==
    /\ a.start[k] <= period
    /\ period <= a.start[k] + duration_periods(TasksOf(k[1])[k[2]]) - 1

\* the amounts requested on a link in a period by the instances of projects not cancelled
RequestedAmounts(a, bk) ==
    { blocking_value(b.amount) :
        b \in UNION { { c \in SeqRange(TasksOf(k[1])[k[2]].traffic_blocking) : c.link = bk[1] } :
                        k \in { j \in StartKeys : a.cancel[j[1]] = 0 /\ Occupies(a, j, bk[2]) } } }

\* C6: in every optimal solution with positive blocking cost and no fixed blockings,
\* blocking[link, p] is the requested amount when p lies in the occupancy window of an
\* instance of a task, not cancelled, that blocks the link, and 0 in every other period.
C6_BlockingFollowsOccupancy ==
    (/\ sched_sol.valid
     /\ sched_results.status = "optimal"
     /\ problem.blocking_cost > 0
     /\ IsEmpty(sched_fixed))
        => \A bk \in BlockingKeys :
              IF RequestedAmounts(sched_sol, bk) = {}
              THEN sched_sol.blocking[bk] = 0
              ELSE /\ sched_sol.blocking[bk] \in RequestedAmounts(sched_sol, bk)
                   /\ \A v \in RequestedAmounts(sched_sol, bk) : v <= sched_sol.blocking[bk]

\* C7: with cancel[p] = 1 every assignment of start values in [0, num_periods - 1]
\* satisfies the time-window and the sequencing constraints of project p.
C7_CancelRelaxes ==
    sched_cand.valid
        => \A pid \in ProjectIds :
              sched_cand.cancel[pid] = 1
                  => (sched_cand.window_ok[pid] /\ sched_cand.sequence_ok[pid])

\* the period a window date falls in, also for dates outside the plan
WindowPeriod(time) == (time - plan.start_time) \div plan.period_length

\* C8: in every feasible solution every instance of a project that is not cancelled starts
\* no earlier than the period of its (own or inherited) earliest start and ends no later
\* than the period of its latest end.
C8_WindowRespected ==
    sched_sol.valid
        => \A k \in StartKeys :
              sched_sol.cancel[k[1]] = 0
                  => LET task == TasksOf(k[1])[k[2]]
                         earliest_start == OrElse(task.earliest_start,
                                                  problem.projects[k[1]].earliest_start)
                         latest_end == OrElse(task.latest_end, problem.projects[k[1]].latest_end)
                     IN /\ earliest_start.some
                             => sched_sol.start[k] >= WindowPeriod(earliest_start.val)
                        /\ latest_end.some
                             => sched_sol.start[k] + duration_periods(task) - 1
                                   <= WindowPeriod(latest_end.val)

\* C9: in every feasible solution of a project that is not cancelled, repetition i + 1 of
\* a task starts at least duration + min_rest_between periods (and, when a maximum is
\* given, at most duration + max_rest_between periods) after repetition i, and the first
\* repetition of the next task is bound in the same way to the last repetition of the
\* task, by the task's duration and its rest-after bounds.
C9_Sequencing ==
    sched_sol.valid
        => \A tk \in TaskKeys :
              sched_sol.cancel[tk[1]] = 0
                  => LET task == TasksOf(tk[1])[tk[2]]
                         d == task.duration \div plan.period_length
                         st(t, i) == sched_sol.start[<<tk[1], t, i>>]
                     IN /\ \A i \in 0 .. (task.count - 2) :
                             /\ st(tk[2], i + 1)
                                   >= st(tk[2], i) + d + task.min_rest_between \div plan.period_length
                             /\ task.max_rest_between.some
                                   => st(tk[2], i + 1)
                                         <= st(tk[2], i) + d
                                              + task.max_rest_between.val \div plan.period_length
                        /\ tk[2] < Len(TasksOf(tk[1]))
                             => /\ st(tk[2] + 1, 0)
                                      >= st(tk[2], task.count - 1) + d
                                           + task.min_rest_after \div plan.period_length
                                /\ task.max_rest_after.some
                                      => st(tk[2] + 1, 0)
                                            <= st(tk[2], task.count - 1) + d
                                                 + task.max_rest_after.val \div plan.period_length

\* a project that is not cancelled, with a task repeated under a maximum rest and a
\* following task bound by a maximum rest after
C9_Witness ==
    /\ sched_sol.valid
    /\ \E pid \in ProjectIds :
          /\ sched_sol.cancel[pid] = 0
          /\ Len(TasksOf(pid)) >= 2
          /\ TasksOf(pid)[1].count >= 2
          /\ TasksOf(pid)[1].duration >= plan.period_length
          /\ TasksOf(pid)[1].max_rest_between.some
          /\ TasksOf(pid)[1].max_rest_after.some

----------------------------------------------------------------------------
(* The traffic flow model.  Flows are whole trains, cancel fractions are   *)
(* halves (AmountScale = 1.0), travel times are whole hours and the        *)
(* relative travel time limit is in tenths.                                *)

DefaultTrafficCancellationCost == 10
DefaultDisplacementCost == 5
DefaultOperationCost == 1
DefaultMaxRelIncrease == 12
DefaultMaxAbsIncrease == 2

\* build_model: all demand of the line, over every time window of the demand
total_demand(line_id) ==
    SumOver({ key \in DOMAIN problem.demand : key[1] = line_id }, problem.demand)

\* Routes.get_link_duration
get_link_duration(line_id, link_id) ==
    IF <<line_id, link_id>> \in DOMAIN problem.link_durations
    THEN problem.link_durations[<<line_id, link_id>>] ELSE 0

RECURSIVE RouteTime(_, _)
RouteTime(line_id, route) ==
    IF route = << >> THEN 0
    ELSE get_link_duration(line_id, Head(route)) + RouteTime(line_id, Tail(route))

\* the flow variables of a line
FlowVars(line_id) == { key \in FlowKeys : key[1] = line_id }

\* the lines for which build_model posts the demand constraint
DemandPosted == { line_id \in get_all_lines : FlowVars(line_id) # {} }

\* the flow variables that use a link in a period
LinkVars(link_id, period) ==
    { key \in FlowKeys : key[3] = period /\ link_id \in FlowLinks(key) }

\* capacity minus blocked capacity, in halves of a train
available_capacity(link_id, blocked_capacity) ==
    get_link_capacity(link_id) * AmountScale - blocked_capacity

\* the (link, period) entries for which build_model posts a capacity constraint
CapacityPosted(cc) ==
    IF ~cc.some THEN {}
    ELSE { lk \in DOMAIN cc.val :
             /\ lk[1] \in DOMAIN problem.links
             /\ LinkVars(lk[1], lk[2]) # {}
             /\ available_capacity(lk[1], cc.val[lk]) > 0 }

\* the diversion's travel time exceeds the line's limit, in tenths of an hour
TooLong(line_id, link_id) ==
    LET normal_time == RouteTime(line_id, get_line_route(line_id))
        div_time == RouteTime(line_id, get_diversion(line_id, link_id).route)
                    + get_diversion(line_id, link_id).additional_time
        rel == normal_time * DefaultMaxRelIncrease
        abs == (normal_time + DefaultMaxAbsIncrease) * UtilScale
    IN div_time * UtilScale > (IF rel <= abs THEN rel ELSE abs)

\* a build that fixes no flow variable to zero
ZeroPostedNever == {}

\* the flow variables build_model fixes to zero
ZeroPosted ==
    { key \in FlowKeys : key[2] # Normal /\ TooLong(key[1], key[2][2]) }

\* TrafficFlowModel.build_model: the constraints it posts
BuildTraffic(cc) ==
    [built |-> TRUE,
     demand |-> DemandPosted,
     capacity |-> [lk \in CapacityPosted(cc) |-> available_capacity(lk[1], cc.val[lk])],
     zero |-> ZeroPosted]

FlowSum(keys, a) == SumOver(keys, a.flow)

DemandCons(a, line_id) ==
    FlowSum(FlowVars(line_id), a) * AmountScale + a.cancel[line_id] * total_demand(line_id)
        = total_demand(line_id) * AmountScale

\* a capacity constraint that lets one more train through
CapacityConsLoose(a, lk, available) ==
    FlowSum(LinkVars(lk[1], lk[2]), a) * AmountScale <= available + AmountScale

CapacityCons(a, lk, available) ==
    FlowSum(LinkVars(lk[1], lk[2]), a) * AmountScale <= available

TrafficFeasible(a, cons) ==
    /\ \A line_id \in cons.demand : DemandCons(a, line_id)
    /\ \A lk \in DOMAIN cons.capacity : CapacityCons(a, lk, cons.capacity[lk])
    /\ \A key \in cons.zero : a.flow[key] = 0

\* the cost of one flow variable, per train
FlowCost(key) ==
    IF key[2] = Normal THEN DefaultOperationCost
    ELSE DefaultOperationCost
         + get_diversion(key[1], key[2][2]).additional_time * DefaultOperationCost

RECURSIVE FlowCostSum(_, _)
FlowCostSum(keys, a) ==
    IF keys = {} THEN 0
    ELSE LET key == CHOOSE x \in keys : TRUE
         IN FlowCost(key) * a.flow[key] * AmountScale + FlowCostSum(keys \ {key}, a)

RECURSIVE LineCostSum(_, _)
LineCostSum(lines, a) ==
    IF lines = {} THEN 0
    ELSE LET line_id == CHOOSE x \in lines : TRUE
         IN DefaultTrafficCancellationCost * a.cancel[line_id] * total_demand(line_id)
            + DefaultDisplacementCost * a.delay[line_id] * AmountScale
            + LineCostSum(lines \ {line_id}, a)

\* an objective without the delay costs
TrafficObjectiveNoDelay(a) ==
    LineCostSum(get_all_lines, [a EXCEPT !.delay = [l \in get_all_lines |-> 0]])
    + FlowCostSum(FlowKeys, a)

\* the objective, in halves of a cost unit
TrafficObjective(a) == LineCostSum(get_all_lines, a) + FlowCostSum(FlowKeys, a)

----------------------------------------------------------------------------
(* The solver on the traffic model *)

\* flow variables are non-negative, and a line's flow never exceeds its demand
FlowAssignments ==
    { f \in [FlowKeys -> 0 .. SumOver(DOMAIN problem.demand, problem.demand)] :
        \A key \in FlowKeys : f[key] <= total_demand(key[1]) }

\* cancel variables range over [0, 1]
TrafficCancelAssignments == [get_all_lines -> 0 .. AmountScale]

\* delay variables are non-negative
DelayAssignments == [get_all_lines -> {0, 1}]

TrafficAssignment(flow, cancel, delay) ==
    [valid |-> TRUE, flow |-> flow, cancel |-> cancel, delay |-> delay]

TrafficSolutions(cons) ==
    { TrafficAssignment(fc[1], fc[2], delay) :
        fc \in { x \in FlowAssignments \X TrafficCancelAssignments :
                   TrafficFeasible(TrafficAssignment(x[1], x[2], << >>), cons) },
        delay \in DelayAssignments }

TrafficBest(solutions) ==
    LET values == { TrafficObjective(a) : a \in solutions }
    IN CHOOSE m \in values : \A n \in values : m <= n

\* TrafficFlowModel.solve: the values read back from the solver
ExtractTraffic(status, a) ==
    [status |-> status,
     flows |-> [key \in { x \in FlowKeys : a.flow[x] > 0 } |-> a.flow[key]],
     cancelled |-> [l \in { x \in get_all_lines : a.cancel[x] > 0 } |-> a.cancel[l]],
     delayed |-> [l \in { x \in get_all_lines : a.delay[x] > 0 } |-> a.delay[l]]]

restOfTraffic ==
    <<pc, op, ret, results, sched_results, sched_usage, sched_fixed, sched_built, calls,
      saved, max_iterations, iteration, capacity_blockings, days_left, daily_results>>

\* capacity constraints handed to build_model: none, a closure of A_B in the first period,
\* single-track operation followed by a closure, single-track operation of A_B together
\* with single-track operation of the diversion link C_B, a closure of a link outside the
\* network
CapacityChoices ==
    { NoneDict,
      Some(<<"A_B", 0>> :> AmountScale),
      Some((<<"A_B", 0>> :> 1) @@ (<<"A_B", 1>> :> AmountScale)),
      Some((<<"A_B", 1>> :> 1) @@ (<<"C_B", 1>> :> 1)),
      Some(<<"X_Y", 0>> :> AmountScale) }

\* TrafficFlowModel.build_model(capacity_constraints)
TrafficBuild ==
    /\ ~traffic_cons.built
    /\ \E cc \in CapacityChoices :
          /\ traffic_built' = cc
          /\ traffic_cons' = BuildTraffic(cc)
    /\ UNCHANGED <<objVars, problem, plan, restOfTraffic, traffic_results, sched_cand, sched_sol,
                   traffic_sol>>

\* TrafficFlowModel.solve on a built model
TrafficSolve ==
    /\ traffic_cons.built /\ ~traffic_sol.valid
    /\ \E solutions \in {TrafficSolutions(traffic_cons)} :
          \/ /\ \E status \in {"timelimit"} \cup (IF solutions = {} THEN {"infeasible"} ELSE {}) :
                   traffic_results' = TrafficModelSolve(traffic_results, TrafficFailure(status))
             /\ UNCHANGED traffic_sol
          \/ /\ solutions # {}
             /\ \E best \in {TrafficBest(solutions)} :
                   \E a \in solutions :
                      /\ traffic_sol' = a
                      /\ traffic_results' =
                            TrafficModelSolve(traffic_results,
                                ExtractTraffic(IF TrafficObjective(a) = best
                                               THEN "optimal" ELSE "feasible", a))
    /\ UNCHANGED <<objVars, problem, plan, restOfTraffic, traffic_built, traffic_cons, sched_cand,
                   sched_sol>>

NextTraffic == TrafficBuild \/ TrafficSolve

----------------------------------------------------------------------------
(* Traffic problems: two lines with two trains of demand each on a plan of *)
(* two periods of three hours.  L1 runs over A_B and may divert over A_C   *)
(* and C_B; L2 runs over A_B or has no route.  A_B and C_B are links of    *)
(* the network, A_C is not.                                                *)

\* the traffic window: the whole plan, its second period, or inside its first period
TrafficPlans ==
    { SetTrafficWindow(SetPlanningPeriod(0, 6, 3), w[1], w[2]) :
        w \in {<<0, 6>>, <<3, 6>>, <<1, 2>>} }

TrafficProblem(capacity, additional_time, l2_routed) ==
    [links |-> ("A_B" :> capacity) @@ ("C_B" :> 1),
     lines |-> {"L1", "L2"},
     line_routes |-> ("L1" :> <<"A_B">>)
                     @@ (IF l2_routed THEN "L2" :> <<"A_B">> ELSE EmptyDict),
     diversions |-> IF additional_time.some
                    THEN <<"L1", "A_B">> :> [route |-> <<"A_C", "C_B">>,
                                             additional_time |-> additional_time.val]
                    ELSE EmptyDict,
     demand |-> (<<"L1", 0, 3>> :> 1) @@ (<<"L1", 3, 6>> :> 1) @@ (<<"L2", 0, 6>> :> 2),
     link_durations |-> (<<"L1", "A_B">> :> 5) @@ (<<"L1", "A_C">> :> 3)
                        @@ (<<"L1", "C_B">> :> 3) @@ (<<"L2", "A_B">> :> 5),
     projects |-> EmptyDict,
     blocking_cost |-> DefaultBlockingCost,
     cancellation_cost |-> DefaultCancellationCost]

TrafficProblems ==
    { TrafficProblem(capacity, additional_time, l2_routed) :
        capacity \in {1, 2}, additional_time \in {NoneInt, SomeInt(0), SomeInt(3)},
        l2_routed \in BOOLEAN }

InitTraffic ==
    /\ problem \in TrafficProblems
    /\ plan \in TrafficPlans
    /\ InitCoordinator
    /\ InitModels

SpecTraffic == InitTraffic /\ [][NextTraffic]_vars

----------------------------------------------------------------------------
(* Properties of the traffic model *)

\* C10: in every feasible traffic solution, every line of the demand has
\* (sum of its flows over all periods and route variants) + cancel * total_demand
\* = total_demand; lines without a route and lines with no period in the traffic
\* window included.
C10_DemandConservation ==
    traffic_sol.valid => \A line_id \in get_all_lines : DemandCons(traffic_sol, line_id)

\* the flow, in a solution, of all route variants that run over a link in a period
FlowOnLink(a, link_id, period) ==
    SumOver({ key \in DOMAIN a.flow : key[3] = period /\ link_id \in FlowLinks(key) }, a.flow)

\* a capacity constraint the caller supplied for which the bound is due: the link is in
\* the network, some flow variable uses it in the period, and capacity is left
BoundDue(a, cc, lk) ==
    /\ lk[1] \in DOMAIN problem.links
    /\ \E key \in DOMAIN a.flow : key[3] = lk[2] /\ lk[1] \in FlowLinks(key)
    /\ get_link_capacity(lk[1]) * AmountScale - cc[lk] > 0

\* C11: for every supplied capacity constraint (link, period) with the link in the
\* network, a flow variable using the link in the period and capacity - blocked > 0,
\* every feasible traffic solution has the summed flow of all route variants over the
\* link in the period <= capacity - blocked.
C11_CapacityBound ==
    (traffic_sol.valid /\ traffic_built.some) =>
        \A lk \in DOMAIN traffic_built.val :
            BoundDue(traffic_sol, traffic_built.val, lk) =>
                FlowOnLink(traffic_sol, lk[1], lk[2]) * AmountScale
                    <= get_link_capacity(lk[1]) * AmountScale - traffic_built.val[lk]

\* a solution that uses all the capacity a blocking leaves on a link
C11_Witness ==
    /\ traffic_sol.valid /\ traffic_built.some
    /\ \E lk \in DOMAIN traffic_built.val :
          /\ BoundDue(traffic_sol, traffic_built.val, lk)
          /\ FlowOnLink(traffic_sol, lk[1], lk[2]) > 0
          /\ FlowOnLink(traffic_sol, lk[1], lk[2]) * AmountScale
                = get_link_capacity(lk[1]) * AmountScale - traffic_built.val[lk]

\* C26: in every feasible solution of a traffic model built with capacity constraints,
\* the flow over a blocked link of the network in the blocked period is at most
\* capacity * (1 - blocking); a link blocked by 1.0 carries no flow in that period.
C26_BlockedShare ==
    (traffic_sol.valid /\ traffic_built.some) =>
        \A lk \in DOMAIN traffic_built.val :
            lk[1] \in DOMAIN problem.links =>
                FlowOnLink(traffic_sol, lk[1], lk[2]) * AmountScale
                    <= get_link_capacity(lk[1]) * (AmountScale - traffic_built.val[lk])

\* C28: the displacement cost being positive, every optimal traffic solution has
\* delay[line] = 0 for every line and empty Results.delayed, whatever capacity constraints
\* the model was built with.
C28_NoDelayWhenOptimal ==
    (/\ traffic_sol.valid
     /\ traffic_results.status = "optimal"
     /\ DefaultDisplacementCost > 0) =>
        /\ \A line_id \in get_all_lines : traffic_sol.delay[line_id] = 0
        /\ IsEmpty(traffic_results.delayed)

\* an optimal solution of a model built with capacity constraints that cancels trains
C28_Witness ==
    /\ traffic_sol.valid
    /\ traffic_results.status = "optimal"
    /\ traffic_built.some
    /\ ~IsEmpty(traffic_results.cancelled)

\* the diversion of a line around a link takes longer than the line may take
ExceedsLimit(line_id, link_id) ==
    LET normal_time == RouteTime(line_id, get_line_route(line_id))
        total_time == RouteTime(line_id, get_diversion(line_id, link_id).route)
                      + get_diversion(line_id, link_id).additional_time
    IN \/ total_time * UtilScale > normal_time * DefaultMaxRelIncrease
       \/ total_time > normal_time + DefaultMaxAbsIncrease

\* C16: a diversion whose total time (link durations plus additional time) exceeds
\* min(normal_time * max_rel_increase, normal_time + max_abs_increase) has flow 0 in
\* every period in every feasible traffic solution.
C16_DiversionExclusion ==
    traffic_sol.valid =>
        \A key \in DOMAIN traffic_sol.flow :
            (key[2] # Normal /\ ExceedsLimit(key[1], key[2][2])) => traffic_sol.flow[key] = 0

\* a solution in which a line with a too long diversion runs on its normal route
C16_Witness ==
    /\ traffic_sol.valid
    /\ \E key \in DOMAIN traffic_sol.flow :
          /\ key[2] # Normal /\ ExceedsLimit(key[1], key[2][2])
          /\ \E other \in DOMAIN traffic_sol.flow :
                other[1] = key[1] /\ other[2] = Normal /\ traffic_sol.flow[other] > 0

----------------------------------------------------------------------------
(* The scheduling model and the plan as their callers use them: build,     *)
(* solve and the queries, in any order.  The solver is the collaborator of *)
(* the coordinator section: a status and realized values.                  *)

\* get_project_schedule: one instance of a task, with the blockings of its periods
ScheduleInstance(res, pid, t, i) ==
    LET start_period == res.start_times[<<pid, t, i>>]
        start_time == get_period_start(start_period)
    IN [index |-> i,
        start_time |-> start_time,
        end_time |-> start_time + TasksOf(pid)[t].duration,
        blocking |->
          [bk \in { x \in DOMAIN res.blockings :
                      /\ start_period <= x[2]
                      /\ x[2] < start_period + duration_periods(TasksOf(pid)[t]) }
             |-> res.blockings[bk]]]

\* get_project_schedule: a task with the instances that have a start time
TaskSchedule(res, pid, t) ==
    [duration |-> TasksOf(pid)[t].duration,
     instances |-> { ScheduleInstance(res, pid, t, i) :
                       i \in { j \in 0 .. (TasksOf(pid)[t].count - 1) :
                                 <<pid, t, j>> \in DOMAIN res.start_times } }]

\* ProjectSchedulingModel.get_project_schedule
get_project_schedule(res) ==
    IF res = EmptyResults THEN EmptyDict
    ELSE [pid \in ProjectIds \ res.cancelled_projects |->
            [id |-> pid,
             tasks |-> [t \in 1 .. Len(TasksOf(pid)) |-> TaskSchedule(res, pid, t)]]]

\* plans of three periods of twelve hours and of three periods of two hours in seven
\* hours; the traffic window is the whole plan, its last period, or inside a period
QueryPlans ==
    { SetTrafficWindow(SetPlanningPeriod(0, 36, 12), w[1], w[2]) :
        w \in {<<0, 36>>, <<24, 36>>, <<13, 20>>} }
    \cup { SetTrafficWindow(SetPlanningPeriod(0, 7, 2), 0, 7) }

\* one project with a task of one period that is carried out twice
QueryProblem ==
    SchedProblem(Project(NoneInt, NoneInt,
                         << Task(2, 2, 0, NoneInt, 0, NoneInt, NoneInt, NoneInt, "1.0") >>))

\* what a solve of the model may report
ModelOutcomes ==
    { [status |-> "optimal", start_times |-> [k \in StartKeys |-> k[3]], blockings |-> b,
       cancelled_projects |-> c] :
        b \in Dicts(BlockingKeys, {AmountScale}), c \in SUBSET ProjectIds }
    \cup { SchedFailure("infeasible") }

\* the times get_period_index is asked for: before, in and at the end of the plan, after it
QueryTimes == {-1, 0, plan.period_length, plan.end_time - 1, plan.end_time, plan.end_time + 1}

restOfModel ==
    <<results, sched_usage, sched_fixed, traffic_results, traffic_built, saved, max_iterations,
      iteration, capacity_blockings, days_left, daily_results, mipVars>>

\* ProjectSchedulingModel.build_model
ModelBuild ==
    /\ ~sched_built
    /\ sched_built' = TRUE
    /\ op' = "build_model"
    /\ ret' = "none"
    /\ UNCHANGED <<objVars, problem, plan, pc, sched_results, calls, restOfModel>>

\* ProjectSchedulingModel.solve: False at once when there is no model
ModelSolve ==
    /\ Len(calls) < MaxSolves
    /\ op' = "solve"
    /\ IF ~sched_built
       THEN /\ calls' = Append(calls, Call("sched", NoneDict, SchedFailure("no model")))
            /\ ret' = "False"
            /\ UNCHANGED sched_results
       ELSE \E out \in ModelOutcomes :
               /\ sched_results' = SchedModelSolve(out)
               /\ calls' = Append(calls, Call("sched", NoneDict, out))
               /\ ret' = IF Success(out.status) THEN "True" ELSE "False"
    /\ UNCHANGED <<objVars, problem, plan, pc, sched_built, restOfModel>>

\* a query only reads the model and the plan
QueryFrame == UNCHANGED <<objVars, problem, plan, pc, sched_built, sched_results, calls, restOfModel>>

ModelGetCapacityBlockings ==
    /\ op' = "get_capacity_blockings"
    /\ ret' = get_capacity_blockings(sched_results)
    /\ QueryFrame

ModelGetAffectedTrafficDays ==
    /\ op' = "get_affected_traffic_days"
    /\ ret' = get_affected_traffic_days(sched_results)
    /\ QueryFrame

ModelGetProjectSchedule ==
    /\ op' = "get_project_schedule"
    /\ ret' = get_project_schedule(sched_results)
    /\ QueryFrame

PlanGetPeriodIndex ==
    /\ op' = "get_period_index"
    /\ \E time \in QueryTimes : ret' = get_period_index(time)
    /\ QueryFrame

NextQuery ==
    \/ ModelBuild
    \/ ModelSolve
    \/ ModelGetCapacityBlockings
    \/ ModelGetAffectedTrafficDays
    \/ ModelGetProjectSchedule
    \/ PlanGetPeriodIndex

InitQuery ==
    /\ problem = QueryProblem
    /\ plan \in QueryPlans
    /\ InitCoordinator
    /\ InitModels

SpecQuery == InitQuery /\ [][NextQuery]_vars

----------------------------------------------------------------------------
(* Properties of the queries *)

\* the interval of a period and the traffic window have a point in common
OverlapsWindow(period) ==
    /\ get_period_start(period) <= plan.traffic_end
    /\ plan.traffic_start <= get_period_end(period)

\* C14: every date returned by get_affected_traffic_days is the date of the start of a
\* period that has a blocking in the results and whose interval [period start, period
\* end] overlaps the traffic window.
C14_AffectedDaysOverlap ==
    op = "get_affected_traffic_days" =>
        \A i \in 1 .. Len(ret) :
            \E k \in DOMAIN sched_results.blockings :
                DateOf(get_period_start(k[2])) = ret[i] /\ OverlapsWindow(k[2])

\* a day is returned while another blocked period lies outside the traffic window
C14_Witness ==
    /\ op = "get_affected_traffic_days"
    /\ Len(ret) >= 1
    /\ \E k \in DOMAIN sched_results.blockings :
          ~OverlapsWindow(k[2]) /\ \A i \in 1 .. Len(ret) : ret[i] # DateOf(get_period_start(k[2]))

\* C24: get_affected_traffic_days returns the date of the start of every period that has
\* a blocking in the results and whose interval overlaps the traffic window, a period
\* that contains the whole traffic window included.
C24_AffectedDaysComplete ==
    (op = "get_affected_traffic_days" /\ sched_results # EmptyResults) =>
        \A k \in DOMAIN sched_results.blockings :
            OverlapsWindow(k[2]) =>
                \E i \in 1 .. Len(ret) : ret[i] = DateOf(get_period_start(k[2]))

\* no solve of the model has succeeded so far
NeverSolved == \A i \in 1 .. Len(calls) : ~calls[i].ok

\* C17: as long as no solve of the scheduling model has succeeded (never solved, solved
\* before build, only failed solves), get_capacity_blockings, get_affected_traffic_days
\* and get_project_schedule each return an empty collection.
C17_QueriesEmptyBeforeSolve ==
    NeverSolved =>
        /\ op = "get_capacity_blockings" => ret = EmptyDict
        /\ op = "get_affected_traffic_days" => ret = << >>
        /\ op = "get_project_schedule" => ret = EmptyDict

\* a query answered after a solve without a model and a failed solve on a built model
C17_Witness ==
    /\ NeverSolved
    /\ Len(calls) = 2 /\ sched_built
    /\ op = "get_project_schedule"

\* C18: get_period_index returns no index or an index in [0, num_periods), for every
\* time, the plan's end time included.
C18_PeriodIndexInRange ==
    op = "get_period_index" => (ret.some => (0 <= ret.val /\ ret.val < plan.num_periods))

----------------------------------------------------------------------------
(* solve_scheduling on the scheduling model with its constraints: fixed    *)
(* blockings are added, the model is built anew and solved, up to          *)
(* MaxSolves times on the same model.  calls logs each call with the fixed *)
(* blockings it was given.                                                 *)

\* fixed blockings a caller hands over: none, a closure or single-track operation of
\* A_B in the first period, a closure of a link that is not in the network
FixedArguments ==
    { NoneDict,
      Some(<<"A_B", 0>> :> AmountScale),
      Some(<<"A_B", 0>> :> 1),
      Some(<<"X_Y", 0>> :> AmountScale) }

\* one task of one period that closes A_B
FixedProblem ==
    SchedProblem(Project(NoneInt, NoneInt,
                         << Task(2, 1, 0, NoneInt, 0, NoneInt, NoneInt, NoneInt, "1.0") >>))

\* a plan of two periods of two hours
FixedPlan == SetTrafficWindow(SetPlanningPeriod(0, 4, 2), 0, 4)

restOfScheduling ==
    <<sched_usage, traffic_results, traffic_built, saved, max_iterations, iteration,
      capacity_blockings, days_left, daily_results, sched_cand, traffic_cons, traffic_sol>>

\* solve_scheduling(fixed_blockings): the fixed blockings are added and the model is built
SchedulingEnter ==
    /\ pc = "idle"
    /\ Len(calls) < MaxSolves
    /\ \E fixed \in FixedArguments :
          /\ sched_fixed' = AddFixed(fixed)
          /\ calls' = Append(calls, Call("sched", fixed, SchedFailure("running")))
    /\ sched_built' = TRUE
    /\ sched_sol' = NoAssignment
    /\ pc' = "sched_solve"
    /\ op' = "scheduling"
    /\ ret' = "none"
    /\ UNCHANGED <<objVars, problem, plan, results, sched_results, restOfScheduling>>

\* solve_scheduling: what is stored and returned once the solver has come back
SchedulingStore(out) ==
    /\ sched_results' = SchedModelSolve(out)
    /\ results' = IF Success(out.status)
                  THEN [results EXCEPT !.sched = SchedModelSolve(out)]
                  ELSE results
    /\ calls' = [calls EXCEPT ![Len(calls)] = Call("sched", @.cc, out)]
    /\ ret' = IF Success(out.status) THEN "True" ELSE "False"

\* solve_scheduling: the model is solved and the results are stored on success
SchedulingSolve ==
    /\ pc = "sched_solve"
    /\ \E solutions \in {SchedSolutions} :
          \/ /\ \E status \in {"timelimit"} \cup (IF solutions = {} THEN {"infeasible"} ELSE {}) :
                   SchedulingStore(SchedFailure(status))
             /\ UNCHANGED sched_sol
          \/ /\ solutions # {}
             /\ \E best \in {BestObjective(solutions)} :
                   \E a \in solutions :
                      /\ sched_sol' = a
                      /\ SchedulingStore(ExtractSched(IF SchedObjective(a) = best
                                                      THEN "optimal" ELSE "feasible", a))
    /\ pc' = "idle"
    /\ UNCHANGED <<objVars, problem, plan, op, sched_fixed, sched_built, restOfScheduling>>

NextFixed == SchedulingEnter \/ SchedulingSolve

InitFixed ==
    /\ problem = FixedProblem
    /\ plan = FixedPlan
    /\ InitCoordinator
    /\ InitModels

SpecFixed == InitFixed /\ [][NextFixed]_vars

\* C15: in every successful scheduling solve, for every fixed blocking (link, period) ->
\* amount supplied to this or an earlier solve_scheduling call on the same model, the
\* solved blocking[link, period] is >= amount.
C15_FixedBlockingsEnforced ==
    (op = "scheduling" /\ pc = "idle" /\ ret = "True") =>
        \A i \in 1 .. Len(calls) :
            \A fk \in DOMAIN calls[i].cc.val :
                fk \in BlockingKeys => sched_sol.blocking[fk] >= calls[i].cc.val[fk]

----------------------------------------------------------------------------
(* The objective the scheduling solves of solve_integrated are built with  *)

\* the utilization of the most recent traffic solve, 0 for a key it does not have
RecentUsage(bk) ==
    LET util == get_capacity_utilization(traffic_results)
    IN IF bk \in DOMAIN util THEN util[bk] ELSE 0

\* C21: whenever solve_integrated is about to solve the scheduling model, the weight of
\* every blocking variable in the objective is the utilization of the most recent traffic
\* solve (blocking * traffic_usage * blocking_cost), an empty utilization map included.
C21_TrafficWeightedCost ==
    pc = "int_sched" => \A bk \in BlockingKeys : BlockingWeight(bk) = RecentUsage(bk)

\* C23: traffic_capacity_usage of the scheduling model changes only in a step of
\* solve_integrated in which a traffic solve has succeeded, and it becomes the utilization
\* of that solve; solve_scheduling, solve_traffic and solve_daily leave it as it is.
C23_UsageWrittenBetweenRounds ==
    [][sched_usage' # sched_usage =>
          /\ op = "integrated" /\ op' = "integrated"
          /\ pc \in {"int_undisturbed", "int_traffic"}
          /\ Len(calls') = Len(calls) + 1
          /\ calls'[Len(calls')].kind = "traffic" /\ calls'[Len(calls')].ok
          /\ sched_usage' = Some(get_capacity_utilization(traffic_results'))]_vars

\* solve_daily has returned on a scheduling model that holds the utilization an earlier
\* solve_integrated wrote
C23_Witness ==
    /\ op = "daily" /\ pc = "return"
    /\ sched_usage.some /\ ~IsEmpty(sched_usage.val)

\* C25: when solve_integrated returns true with max_iterations >= 1, results['sched'] and
\* results['traffic'] are of the same round: the last two solver calls are the scheduling
\* solve that produced results['sched'] and the traffic solve that was built with exactly
\* its blockings and produced results['traffic'].
C25_SameRound ==
    (op = "integrated" /\ pc = "return" /\ ret = "True" /\ max_iterations >= 1) =>
        /\ Len(calls) >= 3
        /\ results.sched = sched_results /\ results.sched # NoResults
        /\ calls[Len(calls) - 1].kind = "sched" /\ calls[Len(calls) - 1].ok
        /\ calls[Len(calls) - 1].blockings = results.sched.blockings
        /\ calls[Len(calls)].kind = "traffic" /\ calls[Len(calls)].ok
        /\ calls[Len(calls)].cc = Some(results.sched.blockings)
        /\ traffic_built = Some(results.sched.blockings)
        /\ results.traffic = traffic_results

\* solve_integrated has returned true after two rounds whose scheduling solves gave
\* different blockings, the last of them not empty
C25_Witness ==
    /\ op = "integrated" /\ pc = "return" /\ ret = "True"
    /\ Len(calls) = 5
    /\ calls[2].blockings # calls[4].blockings
    /\ ~IsEmpty(results.sched.blockings)

\* solve_integrated runs with max_iterations <= 0 and has issued nothing but the
\* unconstrained traffic solve, results['sched'] being what it was at entry
OnlyUndisturbed ==
    /\ pc \in {"int_undisturbed", "return"}
    /\ Len(calls) = (IF pc = "return" THEN 1 ELSE 0)
    /\ \A i \in 1 .. Len(calls) : calls[i].kind = "traffic" /\ calls[i].cc = NoneDict
    /\ results.sched = saved.sched

\* C30 as stated: solve_integrated with max_iterations <= 0 performs only the
\* unconstrained traffic solve, never solves the scheduling model, and returns true with
\* results['sched'] unchanged.
C30_ZeroRoundsTrue ==
    (op = "integrated" /\ max_iterations <= 0) =>
        (OnlyUndisturbed /\ (pc = "return" => ret = "True"))

\* C30, amended: solve_integrated with max_iterations <= 0 performs only the unconstrained
\* traffic solve, never solves the scheduling model, leaves results['sched'] unchanged, and
\* returns true if that traffic solve succeeded and false if it failed.
C30_ZeroRounds ==
    (op = "integrated" /\ max_iterations <= 0) =>
        (OnlyUndisturbed /\
         (pc = "return" => ret = (IF calls[1].ok THEN "True" ELSE "False")))

\* solve_integrated(0) has returned true on a coordinator that holds the scheduling
\* results of an earlier solve
C30_Witness ==
    /\ op = "integrated" /\ pc = "return" /\ max_iterations <= 0
    /\ ret = "True" /\ calls[1].ok
    /\ results.sched # NoResults /\ ~IsEmpty(results.sched.blockings)

\* the step is a failed solve of the given model: a failed solve_scheduling or
\* solve_traffic call of the user, or a failed sub-solve of solve_integrated or solve_daily
FailedSolveStep(name, kind) ==
    \/ pc = "idle" /\ op' = name /\ ret' = "False"
    \/ /\ Len(calls') = Len(calls) + 1
       /\ calls'[Len(calls')].kind = kind /\ ~calls'[Len(calls')].ok

\* C29: a failed scheduling (traffic) solve leaves the results of the scheduling (traffic)
\* model and the coordinator's results entry as the earlier solve left them, so the
\* queries on them return what they returned before, although the model was rebuilt.
C29_FailedSolveKeepsResults ==
    [][/\ FailedSolveStep("scheduling", "sched") =>
             /\ sched_built'
             /\ sched_results' = sched_results /\ results'.sched = results.sched
             /\ get_capacity_blockings(sched_results') = get_capacity_blockings(sched_results)
             /\ get_affected_traffic_days(sched_results') = get_affected_traffic_days(sched_results)
       /\ FailedSolveStep("traffic", "traffic") =>
             /\ traffic_results' = traffic_results /\ results'.traffic = results.traffic]_vars

\* solve_traffic has failed on a model built with capacity constraints, and the model and
\* the coordinator still hold the flows of an earlier successful solve
C29_Witness ==
    /\ op = "traffic" /\ pc = "return" /\ ret = "False"
    /\ traffic_built.some
    /\ traffic_results # EmptyResults /\ ~IsEmpty(traffic_results.flows)
    /\ results.traffic = traffic_results

----------------------------------------------------------------------------
(* Results objects. Every handler is followed as a whole, on the dict      *)
(* objects it creates and on the attributes that refer to them:            *)
(* sched_model.results, traffic_model.results, results['sched'],           *)
(* results['traffic'] and the values of results['daily_traffic'].          *)
(* The attributes that hold no Results object (fixed_blockings,            *)
(* traffic_capacity_usage, the gurobi models) are followed by Spec.        *)

ObjState(h, r, value) == [heap |-> h, refs |-> r, ret |-> value]

ObjCurrent == ObjState(heap, refs, "none")

\* a solve that fills the dict the model already has
NewResultsInPlace(h, old, value) ==
    IF old = NoObject THEN Append(h, value) ELSE [h EXCEPT ![old] = value]

\* self.results = {...}: a dict is created and filled, the one the attribute referred
\* to before is left as it is
NewResults(h, old, value) == Append(h, value)

\* solve_scheduling: sched_model.solve, then results['sched'] = sched_model.results
ObjSolveSched(o, out) ==
    IF ~Success(out.status) THEN [o EXCEPT !.ret = "False"]
    ELSE LET h == NewResults(o.heap, o.refs.sched_model, SchedResults(out))
         IN ObjState(h, [o.refs EXCEPT !.sched_model = Len(h), !.sched = Len(h)], "True")

\* solve_traffic: traffic_model.solve, then results['traffic'] = traffic_model.results
ObjSolveTraffic(o, out) ==
    IF ~Success(out.status) THEN [o EXCEPT !.ret = "False"]
    ELSE LET h == NewResults(o.heap, o.refs.traffic_model, TrafficResults(out))
         IN ObjState(h, [o.refs EXCEPT !.traffic_model = Len(h), !.traffic = Len(h)], "True")

\* the while loop of solve_integrated: one scheduling and one traffic solve per round
RECURSIVE IntegratedRounds(_, _)
IntegratedRounds(o, rounds) ==
    IF rounds = << >> THEN [o EXCEPT !.ret = "True"]
    ELSE LET o1 == ObjSolveSched(o, rounds[1][1])
         IN IF o1.ret = "False" THEN o1
            ELSE LET o2 == ObjSolveTraffic(o1, rounds[1][2])
                 IN IF o2.ret = "False" THEN o2 ELSE IntegratedRounds(o2, Tail(rounds))

\* solve_integrated: the undisturbed traffic solve, then max_iterations rounds
ObjIntegrated(o, undisturbed, rounds) ==
    LET o1 == ObjSolveTraffic(o, undisturbed)
    IN IF o1.ret = "False" THEN o1 ELSE IntegratedRounds(o1, rounds)

\* the loop of solve_daily: every affected day with blockings gets a TrafficFlowModel of
\* its own, whose results go to the local dict daily_results on success
RECURSIVE DailyLoop(_, _, _, _, _)
DailyLoop(h, daily, blockings, days, outs) ==
    IF days = << >> THEN [heap |-> h, daily |-> daily]
    ELSE LET day == Head(days)
         IN IF IsEmpty(DayBlockings(blockings, day)) \/ ~Success(outs[day].status)
            THEN DailyLoop(h, daily, blockings, Tail(days), outs)
            ELSE LET h1 == NewResults(h, NoObject, TrafficResults(outs[day]))
                 IN DailyLoop(h1, DictUpdate(daily, day :> Len(h1)), blockings, Tail(days), outs)

\* solve_daily: the scheduling solve, the loop, then results['daily_traffic'] = daily_results
ObjDaily(o, out, outs) ==
    LET o1 == ObjSolveSched(o, out)
    IN IF o1.ret = "False" THEN o1
       ELSE LET res == SchedResults(out)
                loop == DailyLoop(o1.heap, EmptyDict, get_capacity_blockings(res),
                                  get_affected_traffic_days(res), outs)
            IN ObjState(loop.heap, [o1.refs EXCEPT !.daily_traffic = Some(loop.daily)],
                        DailyReturn(loop.daily))

\* the content an attribute shows
Deref(o, ref, none) == IF ref = NoObject THEN none ELSE o.heap[ref]

DerefDaily(o) ==
    IF o.refs.daily_traffic.some
    THEN Some([d \in DOMAIN o.refs.daily_traffic.val |-> o.heap[o.refs.daily_traffic.val[d]]])
    ELSE NoneDict

\* the handler returns and leaves the objects and the attributes as o has them
ObjFrame(o) ==
    /\ Len(o.heap) <= MaxObjects
    /\ heap' = o.heap
    /\ refs' = o.refs
    /\ Return(o.ret)
    /\ sched_results' = Deref(o, o.refs.sched_model, EmptyResults)
    /\ traffic_results' = Deref(o, o.refs.traffic_model, EmptyResults)
    /\ results' = [sched |-> Deref(o, o.refs.sched, NoResults),
                   traffic |-> Deref(o, o.refs.traffic, NoResults),
                   daily_traffic |-> DerefDaily(o)]
    /\ UNCHANGED <<problem, plan, mipVars, sched_usage, sched_fixed, sched_built, traffic_built,
                   max_iterations, iteration, capacity_blockings, days_left, daily_results>>

ObjSolveScheduling ==
    /\ Enter("scheduling")
    /\ \E out \in SchedOutcomes : ObjFrame(ObjSolveSched(ObjCurrent, out))

ObjSolveTrafficCall ==
    /\ Enter("traffic")
    /\ \E out \in TrafficOutcomes : ObjFrame(ObjSolveTraffic(ObjCurrent, out))

ObjSolveIntegrated ==
    /\ Enter("integrated")
    /\ \E n \in 0 .. MaxRounds, undisturbed \in TrafficOutcomes :
          \E rounds \in [1 .. n -> SchedOutcomes \X TrafficOutcomes] :
             ObjFrame(ObjIntegrated(ObjCurrent, undisturbed, rounds))

ObjSolveDaily ==
    /\ Enter("daily")
    /\ \E out \in SchedOutcomes :
          \E outs \in [SeqRange(get_affected_traffic_days(SchedResults(out))) -> TrafficOutcomes] :
             ObjFrame(ObjDaily(ObjCurrent, out, outs))

\* the queries and build_model read the results and write none of them
ObjQuery ==
    /\ Enter("query")
    /\ Return("read")
    /\ capacity_blockings' = get_capacity_blockings(sched_results)
    /\ days_left' = get_affected_traffic_days(sched_results)
    /\ UNCHANGED <<objVars, problem, plan, mipVars, results, sched_results, sched_usage, sched_fixed,
                   sched_built, traffic_results, traffic_built, max_iterations, iteration,
                   daily_results>>

NextObjects ==
    \/ ObjSolveScheduling
    \/ ObjSolveTrafficCall
    \/ ObjSolveIntegrated
    \/ ObjSolveDaily
    \/ ObjQuery
    \/ Finish

SpecObjects == Init /\ [][NextObjects]_vars

\* the attributes that refer to a Results object, and the object each refers to
Holders(r) ==
    { <<"sched_model", 0, r.sched_model>>, <<"traffic_model", 0, r.traffic_model>>,
      <<"sched", 0, r.sched>>, <<"traffic", 0, r.traffic>> }
    \cup { <<"daily_traffic", d, r.daily_traffic.val[d]>> : d \in DOMAIN r.daily_traffic.val }

\* C19: every Results object that exists keeps its content through every operation, and
\* an attribute that is set by an operation refers to an object created by that operation.
C19_ResultsNeverMutated ==
    [][/\ Len(heap') >= Len(heap)
       /\ \A i \in 1 .. Len(heap) : heap'[i] = heap[i]
       /\ \A hd \in Holders(refs') \ Holders(refs) : hd[3] > Len(heap)]_vars

\* a handler has returned after a successful scheduling solve, and an object that an
\* earlier scheduling solve created is there with a content other than the new one
C19_Witness ==
    /\ pc = "return" /\ ret = "True"
    /\ refs.sched_model >= 2
    /\ \E i \in 1 .. refs.sched_model - 1 :
          /\ "blockings" \in DOMAIN heap[i]
          /\ heap[i] # heap[refs.sched_model]

----------------------------------------------------------------------------
(* ProjectSchedulingModel.build_model: the resource variables and          *)
(* constraints. problem.resources maps a resource id to its capacity, a    *)
(* task lists its requirements in required_resources, and an assignment    *)
(* gives a.resource[resource, period] and a.res_aux[key] besides.          *)

DefaultResourceCost == 1

ResourceIds == DOMAIN problem.resources

\* one resource usage variable per resource and period
ResourceKeys == { <<r, period>> : r \in ResourceIds, period \in Periods }

\* one auxiliary binary per instance, required resource, period and offset
ResAuxKeysOf(k) ==
    LET task == TasksOf(k[1])[k[2]]
    IN { <<k[1], k[2], k[3], q.resource, period, offset>> :
           q \in SeqRange(task.required_resources), period \in Periods,
           offset \in 0 .. (duration_periods(task) - 1) }

PostedResAuxKeys == UNION { ResAuxKeysOf(k) : k \in StartKeys }

RequiredOf(x) ==
    LET task == TasksOf(x[1])[x[2]]
        j == CHOOSE j \in DOMAIN task.required_resources : task.required_resources[j].resource = x[4]
    IN task.required_resources[j].amount

\* resource[resource, period] >= amount * (1 - res_aux_var) * (1 - cancel_var)
ResourceCons(resource, amount, aux, cancel) == resource >= amount * (1 - aux) * (1 - cancel)

ResLinkageCons(a) ==
    \A x \in PostedResAuxKeys :
        /\ ResourceCons(a.resource[<<x[4], x[5]>>], RequiredOf(x), a.res_aux[x], a.cancel[x[1]])
        /\ Aux1Cons(a.start[<<x[1], x[2], x[3]>>], x[6], x[5], a.res_aux[x])
        /\ Aux2Cons(a.start[<<x[1], x[2], x[3]>>], x[6], x[5], a.res_aux[x])

\* resource[resource, period] <= capacity
ResCapacityCons(a) == \A rk \in ResourceKeys : a.resource[rk] <= problem.resources[rk[1]]

ResVarBounds(a) ==
    /\ \A rk \in ResourceKeys : a.resource[rk] >= 0
    /\ \A x \in PostedResAuxKeys : a.res_aux[x] \in {0, 1}

\* every constraint of build_model
ResourceFeasible(a) ==
    /\ SchedFeasible(a)
    /\ ResVarBounds(a)
    /\ ResLinkageCons(a)
    /\ ResCapacityCons(a)

RECURSIVE ResourceCostSum(_, _)
ResourceCostSum(keys, a) ==
    IF keys = {} THEN 0
    ELSE LET rk == CHOOSE x \in keys : TRUE
         IN a.resource[rk] * problem.resource_cost * AmountScale * UtilScale
            + ResourceCostSum(keys \ {rk}, a)

ResourceObjective(a) == SchedObjective(a) + ResourceCostSum(ResourceKeys, a)

\* the points of the resource variables: the capacity constraint bounds them from above
ResourceAssignments ==
    IF ResourceKeys = {} THEN {EmptyDict}
    ELSE [ResourceKeys -> 0 .. MaxAmount]

ResourceAssignment(a, res_aux, resource) ==
    [valid |-> TRUE, start |-> a.start, cancel |-> a.cancel, aux |-> a.aux,
     blocking |-> a.blocking, res_aux |-> res_aux, resource |-> resource]

ResourceSolutions ==
    UNION { { b \in { ResourceAssignment(a, res_aux, resource) :
                        res_aux \in AuxAssignments(PostedResAuxKeys, a.start),
                        resource \in ResourceAssignments } : ResourceFeasible(b) } :
              a \in SchedSolutions }

BestResourceObjective(solutions) ==
    LET values == { ResourceObjective(a) : a \in solutions }
    IN CHOOSE m \in values : \A n \in values : m <= n

\* ProjectSchedulingModel.solve on a built model with resources
ResourceSolve ==
    /\ sched_built /\ ~sched_sol.valid
    /\ \E solutions \in {ResourceSolutions} :
          \/ /\ \E status \in {"timelimit"} \cup (IF solutions = {} THEN {"infeasible"} ELSE {}) :
                   sched_results' = SchedModelSolve(SchedFailure(status))
             /\ UNCHANGED sched_sol
          \/ /\ solutions # {}
             /\ \E best \in {BestResourceObjective(solutions)} :
                   \E a \in solutions :
                      /\ sched_sol' = a
                      /\ sched_results' =
                            SchedModelSolve(ExtractSched(IF ResourceObjective(a) = best
                                                         THEN "optimal" ELSE "feasible", a))
    /\ UNCHANGED <<objVars, problem, plan, restOfCoordinator, sched_built, sched_cand, traffic_cons,
                   traffic_sol>>

NextResource == SchedBuild \/ ResourceSolve

\* two projects of one task each, on the link A_B and on the resource R1, on a plan of
\* two periods of two hours
ResourcePlan == SetTrafficWindow(SetPlanningPeriod(0, 4, 2), 0, 4)

ResourceTask(duration, amount) ==
    [duration |-> duration, count |-> 1,
     min_rest_between |-> 0, max_rest_between |-> NoneInt,
     min_rest_after |-> 0, max_rest_after |-> NoneInt,
     earliest_start |-> NoneInt, latest_end |-> NoneInt,
     traffic_blocking |-> << [link |-> "A_B", amount |-> "1.0"] >>,
     required_resources |-> << [resource |-> "R1", amount |-> amount] >>]

ResourceProblem(task1, task2, capacity) ==
    [links |-> [l \in {"A_B"} |-> DefaultCapacity],
     lines |-> {},
     line_routes |-> EmptyDict,
     diversions |-> EmptyDict,
     projects |-> ("P1" :> Project(NoneInt, NoneInt, << task1 >>))
                  @@ ("P2" :> Project(NoneInt, NoneInt, << task2 >>)),
     resources |-> ("R1" :> capacity),
     blocking_cost |-> DefaultBlockingCost,
     cancellation_cost |-> DefaultCancellationCost,
     resource_cost |-> DefaultResourceCost]

ResourceProblems ==
    { ResourceProblem(ResourceTask(d1, m1), ResourceTask(d2, m2), capacity) :
        d1 \in {1, 2}, d2 \in {1, 2, 4}, m1 \in 1 .. MaxAmount, m2 \in {1},
        capacity \in 1 .. MaxAmount }

InitResource ==
    /\ problem \in ResourceProblems
    /\ plan = ResourcePlan
    /\ InitCoordinator
    /\ InitModels

SpecResource == InitResource /\ [][NextResource]_vars

----------------------------------------------------------------------------
(* Properties of the resource constraints *)

\* the amounts of a resource required in a period by the instances, of projects not
\* cancelled, that occupy the period
RECURSIVE RequiredSum(_, _, _)
RequiredSum(a, rk, keys) ==
    IF keys = {} THEN 0
    ELSE LET k == CHOOSE x \in keys : TRUE
             reqs == TasksOf(k[1])[k[2]].required_resources
             mine == IF a.cancel[k[1]] = 0 /\ Occupies(a, k, rk[2])
                     THEN SumOver({ j \in DOMAIN reqs : reqs[j].resource = rk[1] },
                                  [j \in DOMAIN reqs |-> reqs[j].amount])
                     ELSE 0
         IN mine + RequiredSum(a, rk, keys \ {k})

\* C22: in every feasible scheduling solution, for every resource and period, the sum of
\* the amounts required by the instances of projects not cancelled that occupy the period
\* is at most the capacity of the resource.
C22_ResourceCapacity ==
    sched_sol.valid
        => \A rk \in ResourceKeys :
              RequiredSum(sched_sol, rk, StartKeys) <= problem.resources[rk[1]]

\* a task that is shorter than a period
ShortTask(k) == TasksOf(k[1])[k[2]].duration < plan.period_length

Largest(S) == CHOOSE m \in S : \A n \in S : n <= m

\* the assignment with every blocking and resource variable lowered to what the
\* occupancy constraints of the tasks of at least one period ask for
LoweredToLongTasks(a) ==
    [a EXCEPT
       !.blocking = [bk \in BlockingKeys |->
          Largest({0} \cup { AmountOf(x) * (1 - a.aux[x]) * (1 - a.cancel[x[1]]) :
                              x \in { y \in PostedAuxKeys :
                                        /\ ~ShortTask(y) /\ <<y[4], y[5]>> = bk } })],
       !.resource = [rk \in ResourceKeys |->
          Largest({0} \cup { RequiredOf(x) * (1 - a.res_aux[x]) * (1 - a.cancel[x[1]]) :
                              x \in { y \in PostedResAuxKeys :
                                        /\ ~ShortTask(y) /\ <<y[4], y[5]>> = rk } })]]

\* C27: a task shorter than a period has no occupancy constraint, for blockings and
\* for resources; whatever solution the solver returns, the assignment that keeps only
\* what the longer tasks ask for, 0 where they ask for nothing, is feasible as well.
C27_ShortTaskForcesNothing ==
    sched_sol.valid
        => /\ \A k \in StartKeys : ShortTask(k) => (AuxKeysOf(k) = {} /\ ResAuxKeysOf(k) = {})
           /\ ResourceFeasible(LoweredToLongTasks(sched_sol))

\* a solution in which the project of a short task is not cancelled and no link is
\* blocked and no resource is used in any period
C27_Witness ==
    /\ sched_sol.valid
    /\ \E k \in StartKeys : ShortTask(k) /\ sched_sol.cancel[k[1]] = 0
    /\ \A bk \in BlockingKeys : sched_sol.blocking[bk] = 0
    /\ \A rk \in ResourceKeys : sched_sol.resource[rk] = 0

====
